---- MODULE Spec2Model ----
(***************************************************************************)
(* State-machine model of the whisper_frontend client:                     *)
(*   - the Recorder component (src/src/components/recorder.jsx) mounted    *)
(*     by TranscribePage inside the tabbed App,                            *)
(*   - the Row component and the DatasetManager page                       *)
(*     (src/src/pages/DatasetManager.jsx),                                 *)
(*   - the API utility layer (src/src/utils/api.js and its 2.0 revision).  *)
(* Every browser task (a click, a promise continuation, a timer, a media   *)
(* event) is one atomic action, as the UI event loop runs them.            *)
(***************************************************************************)
EXTENDS Naturals, Integers, Sequences, FiniteSets, TLC

\* ------------------------------------------------------------- bounds
MaxSessions == 2      \* getUserMedia requests issued by the Recorder
MaxMounts == 2        \* Recorder instances (mounts of the transcribe tab)
MaxChunks == 1        \* non-empty chunks one MediaRecorder delivers
MaxRows == 2          \* rows rendered by the DatasetManager
MaxRowSessions == 2   \* getUserMedia requests issued by rows
MaxSaves == 1         \* onSave calls a row may have pending
MaxClicks == 3        \* user actions on the DatasetManager page
MaxInFlight == 2      \* HTTP requests of the page awaiting their response
MaxApiCalls == 2      \* calls made to the functions of utils/api.js
MaxExports == 2       \* clicks on the download button
MaxAudios == 3        \* Audio elements created by the rows' play buttons
MaxUploads == 2       \* uploads to /dataset/add
MaxTicks == 1         \* seconds the clock advances
MaxPlays == 1         \* clicks on the Recorder's play button

VARIABLES
  \* ---- App / Recorder component
  activeTab,          \* App.activeTab: "transcribe" | "dataset"
  inst,               \* the mounted Recorder instance (count of mounts)
  recording,          \* Recorder state `recording` of the mounted instance
  mediaRecorderRef,   \* [instance -> session id, 0 = null]
  chunksRef,          \* [instance -> sequence of chunks]
  animationRef,       \* [instance -> session whose draw loop scheduled the last frame, 0 = none]
  loops,              \* sessions whose draw loop has a frame scheduled
  audioCtxRef,        \* [instance -> "none" | "open" | "closed"]
  sess,               \* [session id -> capture session (stream + MediaRecorder)]
  currentIdx,         \* DatasetManager.currentIdx, Null = null
  \* ---- Row components of the DatasetManager
  rowEditing,         \* [row -> Row state `editing`]
  rowIsRecording,     \* [row -> Row state `isRecording`]
  rowRecorderRef,     \* [row -> Row.mediaRecorderRef.current, 0 = null]
  rowChunksRef,       \* [row -> Row.chunksRef.current]
  rowSaves,           \* [row -> toggleEdit calls awaiting onSave(val)]
  rsess,              \* [row session id -> capture session of a re-record]
  refetches,          \* onUpdated() calls made by rows (each is a fetchSamples)
  \* ---- DatasetManager page and the backend it talks to
  dsMounted,          \* the mount effect has run
  samples,            \* DatasetManager.samples: sequence of [file_name, text]
  loading,            \* DatasetManager.loading
  adding,             \* DatasetManager.adding
  toast,              \* DatasetManager.toast ("" = none)
  val,                \* [file name -> Row state `val`, Unmounted if no row has that key]
  editing,            \* [file name -> Row state `editing`]
  net,                \* HTTP requests in flight
  issued,             \* requests sent so far (the next request's id - 1)
  clicks,             \* user actions performed on the page
  addTimers,          \* pending 200 ms timers of addNewRecord
  listLog,            \* ids of the last two list responses applied, latest first
  serverList,         \* the backend's dataset
  \* ---- API layer (utils/api.js)
  apiCalls,           \* calls of the exported functions, in order of the call
  \* ---- dataset export (DatasetManager.downloadDataset)
  revision,           \* the DatasetManager revision that is running
  exportCalls,        \* downloadDataset calls, in order of the click
  \* ---- playback (Row.handlePlay, and the Recorder's play button)
  rowIsPlaying,       \* [row -> Row state `isPlaying`]
  rowAudioRef,        \* [row -> Row audioRef.current: audio id, 0 = null]
  audios,             \* [audio id -> Audio element created by a row]
  playRevision,       \* the Recorder revision that is running
  recPlays,           \* play() calls of the Recorder's play handler, in order
  touchArmed,         \* recPlays waiting in a once-only touchend listener
  \* ---- MIME type of a recording (Recorder.startRecording / onstop)
  platform,           \* what the browser answers to the capability probes
  mime,               \* [session -> MIME type chosen, chunks kept, blob built]
  \* ---- generated file names (generateFileName, saveToCSV)
  now,                \* the local time new Date() returns
  ticks,              \* seconds the clock has advanced
  uploads,            \* files uploaded to /dataset/add, in order
  manualText,         \* TranscribePage.manualText
  audioBlob,          \* TranscribePage.audioBlob, NoBlob = null
  saved,              \* TranscribePage.saved
  \* ---- forms, URLs and the transcription shown by TranscribePage
  forms,              \* the FormData bodies posted so far, with their sender
  urlCalls,           \* playback URLs built so far, in order
  trRevision,         \* the TranscribePage revision that is running
  trCalls,            \* sendAudio calls, in order of the call
  trText,             \* TranscribePage.text (transcript in the older revision)
  trLoading           \* TranscribePage.loading

recVars == <<activeTab, inst, recording, mediaRecorderRef, chunksRef,
             animationRef, loops, audioCtxRef, sess>>

rowVars == <<rowEditing, rowIsRecording, rowRecorderRef, rowChunksRef,
             rowSaves, rsess, refetches>>

dsVars == <<dsMounted, samples, loading, adding, toast, val, editing, net,
            issued, clicks, addTimers, listLog, serverList>>

apiVars == <<apiCalls>>

expVars == <<revision, exportCalls>>

playVars == <<rowIsPlaying, rowAudioRef, audios, playRevision, recPlays,
              touchArmed>>

mimeVars == <<platform, mime>>

nameVars == <<now, ticks, uploads, manualText, audioBlob, saved>>

extVars == <<forms, urlCalls, trRevision, trCalls, trText, trLoading>>

vars == <<recVars, currentIdx, rowVars, dsVars, apiVars, expVars, playVars,
          mimeVars, nameVars, extVars>>

\* what the handlers of the Recorder, of a Row alone, and of the
\* DatasetManager never touch
notRec == <<currentIdx, rowVars, dsVars, apiVars, expVars, playVars,
           mimeVars, nameVars, extVars>>
notRow == <<recVars, dsVars, apiVars, expVars, playVars,
           mimeVars, nameVars, extVars>>
notDs == <<recVars, rowVars, apiVars, expVars, playVars,
           mimeVars, nameVars, extVars>>
notApi == <<recVars, currentIdx, rowVars, dsVars, expVars, playVars,
           mimeVars, nameVars, extVars>>
notExp == <<recVars, currentIdx, rowVars, apiVars, dsMounted, samples, loading,
            adding, val, editing, net, issued, clicks, addTimers, listLog,
            serverList, playVars, mimeVars, nameVars, extVars>>
notPlay == <<recVars, rowVars, dsVars, apiVars, expVars, mimeVars, nameVars, extVars>>
notMime == <<recVars, currentIdx, rowVars, dsVars, apiVars, expVars, playVars,
             nameVars, extVars>>
notName == <<recVars, currentIdx, rowVars, dsVars, apiVars, expVars, playVars,
             mimeVars, extVars>>
notExt == <<recVars, currentIdx, rowVars, dsVars, apiVars, expVars, playVars,
            mimeVars, nameVars>>

\* ------------------------------------------------------------ chunks, blobs
Sessions == 1..MaxSessions
Instances == 1..MaxMounts

EmptyChunk == <<0, 0>>
Chunk(s, k) == <<s, k>>

\* e.data.size
Size(c) == IF c = EmptyChunk THEN 0 ELSE 1

\* the bytes of one chunk
Bytes(c) == IF Size(c) = 0 THEN <<>> ELSE <<c>>

RECURSIVE Concat(_)
Concat(parts) ==
  IF parts = <<>> THEN <<>> ELSE Bytes(Head(parts)) \o Concat(Tail(parts))

\* new Blob(parts, {type}): the concatenation of the parts' bytes
Blob(parts) == Concat(parts)

NoBlob == <<EmptyChunk>>   \* marks "onStop has not been called"; no Blob has this value

DataEvent(c) == [t |-> "data", c |-> c]
StopEvent == [t |-> "stop", c |-> EmptyChunk]

NewSession ==
  [st |-> "unused", inst |-> 0, live |-> FALSE, timer |-> FALSE,
   events |-> <<>>, n |-> 0, got |-> <<>>, blob |-> NoBlob,
   orphanStop |-> FALSE, alerted |-> FALSE,
   atUnmount |-> "", hidden |-> FALSE, sent |-> FALSE]

Mounted == activeTab = "transcribe"

RecInit ==
  /\ activeTab = "transcribe"
  /\ inst = 1
  /\ recording = FALSE
  /\ mediaRecorderRef = [i \in Instances |-> 0]
  /\ chunksRef = [i \in Instances |-> <<>>]
  /\ animationRef = [i \in Instances |-> 0]
  /\ loops = {}
  /\ audioCtxRef = [i \in Instances |-> "none"]
  /\ sess = [s \in Sessions |-> NewSession]

\* ------------------------------------------------ Recorder: start
\* Start button click: `if (recording) return`, then getUserMedia is requested.
\* recording is set only after the promise resolves.
startRecording ==
  /\ Mounted
  /\ ~recording
  /\ \E s \in Sessions :
       /\ sess[s].st = "unused"
       /\ \A t \in Sessions : t < s => sess[t].st # "unused"
       /\ sess' = [sess EXCEPT ![s].st = "gum", ![s].inst = inst]
  /\ UNCHANGED <<activeTab, inst, recording, mediaRecorderRef, chunksRef,
                 animationRef, loops, audioCtxRef>>
  /\ UNCHANGED notRec

\* getUserMedia rejects: catch -> alert
gumRejected(s) ==
  /\ sess[s].st = "gum"
  /\ sess' = [sess EXCEPT ![s].st = "denied", ![s].alerted = TRUE]
  /\ UNCHANGED <<activeTab, inst, recording, mediaRecorderRef, chunksRef,
                 animationRef, loops, audioCtxRef>>
  /\ UNCHANGED notRec

\* setRecording(v) issued by a closure of instance i: a no-op once i is unmounted
SetRecording(i, v) ==
  recording' = IF Mounted /\ inst = i THEN v ELSE recording

\* getUserMedia resolves and the rest of the try block runs to the setTimeout
gumResolved(s) ==
  LET i == sess[s].inst IN
  /\ sess[s].st = "gum"
  /\ audioCtxRef[i] # "closed"
  /\ mediaRecorderRef' = [mediaRecorderRef EXCEPT ![i] = s]
  /\ audioCtxRef' = [audioCtxRef EXCEPT ![i] = "open"]
  /\ chunksRef' = [chunksRef EXCEPT ![i] = <<>>]
  /\ SetRecording(i, TRUE)
  /\ sess' = [sess EXCEPT ![s].st = "ready", ![s].live = TRUE, ![s].timer = TRUE]
  /\ UNCHANGED <<activeTab, inst, animationRef, loops>>
  /\ UNCHANGED notRec

\* getUserMedia resolves but `new MediaRecorder(stream, {mimeType})` throws
\* (mimeType not supported): catch -> alert; the stream was already obtained
gumResolvedCtorThrows(s) ==
  /\ sess[s].st = "gum"
  /\ sess' = [sess EXCEPT ![s].st = "failed", ![s].live = TRUE,
                          ![s].alerted = TRUE]
  /\ UNCHANGED <<activeTab, inst, recording, mediaRecorderRef, chunksRef,
                 animationRef, loops, audioCtxRef>>
  /\ UNCHANGED notRec

\* getUserMedia resolves after the unmount cleanup closed the AudioContext:
\* createMediaStreamSource throws after mediaRecorderRef was assigned
gumResolvedCtxClosed(s) ==
  LET i == sess[s].inst IN
  /\ sess[s].st = "gum"
  /\ audioCtxRef[i] = "closed"
  /\ mediaRecorderRef' = [mediaRecorderRef EXCEPT ![i] = s]
  /\ sess' = [sess EXCEPT ![s].st = "failed", ![s].live = TRUE,
                          ![s].alerted = TRUE]
  /\ UNCHANGED <<activeTab, inst, recording, chunksRef, animationRef, loops,
                 audioCtxRef>>
  /\ UNCHANGED notRec

\* the canvas of instance i is in the document
CanvasPresent(i) == Mounted /\ inst = i

\* the 200 ms timer: recorder.start(100); drawWaveform()
\* start throws on a stream whose tracks have ended; drawWaveform throws on a
\* null canvas (after the recorder has started)
delayedStart(s) ==
  LET i == sess[s].inst IN
  /\ sess[s].st = "ready"
  /\ sess[s].timer
  /\ IF ~sess[s].live
       THEN /\ sess' = [sess EXCEPT ![s].st = "dead", ![s].timer = FALSE]
            /\ UNCHANGED <<loops, animationRef>>
       ELSE /\ sess' = [sess EXCEPT ![s].st = "recording", ![s].timer = FALSE]
            /\ IF CanvasPresent(i)
                 THEN /\ loops' = loops \cup {s}
                      /\ animationRef' = [animationRef EXCEPT ![i] = s]
                 ELSE UNCHANGED <<loops, animationRef>>
  /\ UNCHANGED <<activeTab, inst, recording, mediaRecorderRef, chunksRef,
                 audioCtxRef>>
  /\ UNCHANGED notRec

\* one animation frame of the draw loop of s: it schedules the next frame
drawFrame(s) ==
  /\ s \in loops
  /\ animationRef' = [animationRef EXCEPT ![sess[s].inst] = s]
  /\ UNCHANGED <<activeTab, inst, recording, mediaRecorderRef, chunksRef,
                 loops, audioCtxRef, sess>>
  /\ UNCHANGED notRec

\* ------------------------------------------------ Recorder: media events
\* recorder.ondataavailable
ondataavailable(s, c) ==
  LET i == sess[s].inst IN
  IF Size(c) > 0 THEN Append(chunksRef[i], c) ELSE chunksRef[i]

\* the data the recorder hands over next: a new non-empty chunk, or nothing
NextData(s) ==
  {EmptyChunk} \cup
  (IF sess[s].n < MaxChunks THEN {Chunk(s, sess[s].n + 1)} ELSE {})

Delivered(s, c) ==
  IF Size(c) > 0 THEN Append(sess[s].got, c) ELSE sess[s].got

\* a timeslice elapses while the recorder records: dataavailable is fired
timeslice(s) ==
  LET i == sess[s].inst IN
  /\ sess[s].st = "recording"
  /\ sess[s].n < MaxChunks
  /\ LET c == Chunk(s, sess[s].n + 1) IN
       /\ chunksRef' = [chunksRef EXCEPT ![i] = ondataavailable(s, c)]
       /\ sess' = [sess EXCEPT ![s].n = @ + 1, ![s].got = Delivered(s, c)]
  /\ UNCHANGED <<activeTab, inst, recording, mediaRecorderRef, animationRef,
                 loops, audioCtxRef>>
  /\ UNCHANGED notRec

\* rec.stop(): the recorder becomes inactive at once; dataavailable (the data
\* gathered so far) and stop are queued as tasks
StopQueued(s, c) ==
  [sess[s] EXCEPT !.st = "inactive",
                  !.n = IF Size(c) > 0 THEN @ + 1 ELSE @,
                  !.events = <<DataEvent(c), StopEvent>>]

\* Stop button click
stopRecording ==
  LET rec == mediaRecorderRef[inst] IN
  /\ Mounted
  /\ recording
  /\ IF rec # 0 /\ sess[rec].st = "recording"
       THEN /\ recording' = FALSE
            /\ \E c \in NextData(rec) :
                 sess' = [sess EXCEPT ![rec] = StopQueued(rec, c)]
       ELSE UNCHANGED <<recording, sess>>
  /\ UNCHANGED <<activeTab, inst, mediaRecorderRef, chunksRef, animationRef,
                 loops, audioCtxRef>>
  /\ UNCHANGED notRec

\* the tracks of the stream end by themselves (device unplugged, permission
\* revoked): a recording MediaRecorder stops and queues its final events
trackEnded(s) ==
  /\ sess[s].live
  /\ sess[s].st \in {"ready", "recording"}
  /\ IF sess[s].st = "recording"
       THEN \E c \in NextData(s) :
              sess' = [sess EXCEPT ![s] = [StopQueued(s, c) EXCEPT !.live = FALSE]]
       ELSE sess' = [sess EXCEPT ![s].live = FALSE]
  /\ UNCHANGED <<activeTab, inst, recording, mediaRecorderRef, chunksRef,
                 animationRef, loops, audioCtxRef>>
  /\ UNCHANGED notRec

\* the Recorder revision with the visibility handler: the tab becomes hidden
\* (visibilitychange with document.hidden).  stopIfHidden calls rec.stop() on
\* a recording recorder and nothing else; the session notes that it was
\* stopped this way
stopIfHidden ==
  LET rec == mediaRecorderRef[inst] IN
  /\ Mounted
  /\ IF rec # 0 /\ sess[rec].st = "recording"
       THEN \E c \in NextData(rec) :
              sess' = [sess EXCEPT ![rec] = [StopQueued(rec, c) EXCEPT
                                              !.hidden = TRUE]]
       ELSE UNCHANGED sess
  /\ UNCHANGED <<activeTab, inst, recording, mediaRecorderRef, chunksRef,
                 animationRef, loops, audioCtxRef>>
  /\ UNCHANGED notRec

\* recorder.onstop: build the blob from chunksRef.current, hand it to onStop,
\* stop the tracks, cancel the frame animationRef.current names
onstop(s) ==
  LET i == sess[s].inst IN
  /\ sess' = [sess EXCEPT ![s].events = Tail(@),
                          ![s].blob = Blob(chunksRef[i]),
                          ![s].orphanStop = ~CanvasPresent(i),
                          ![s].live = FALSE]
  /\ loops' = loops \ {animationRef[i]}
  /\ UNCHANGED <<chunksRef>>

\* the next queued media event of session s is dispatched
mediaEvent(s) ==
  LET i == sess[s].inst IN
  /\ sess[s].events # <<>>
  /\ LET e == Head(sess[s].events) IN
       IF e.t = "data"
         THEN /\ chunksRef' = [chunksRef EXCEPT ![i] = ondataavailable(s, e.c)]
              /\ sess' = [sess EXCEPT ![s].events = Tail(@),
                                      ![s].got = Delivered(s, e.c)]
              /\ UNCHANGED loops
         ELSE onstop(s)
  /\ UNCHANGED <<activeTab, inst, recording, mediaRecorderRef, animationRef,
                 audioCtxRef>>
  /\ UNCHANGED notRec

\* ------------------------------------------------ App: tab switch
\* App.renderPage switches to the dataset tab: TranscribePage and its Recorder
\* unmount; the cleanup effect cancels one frame and closes the AudioContext
unmountRecorder ==
  /\ Mounted
  /\ activeTab' = "dataset"
  /\ loops' = loops \ {animationRef[inst]}
  /\ audioCtxRef' = [audioCtxRef EXCEPT
                       ![inst] = IF @ = "open" THEN "closed" ELSE @]
  /\ recording' = FALSE
  /\ sess' = [s \in Sessions |->
               IF sess[s].inst = inst
                 THEN [sess[s] EXCEPT !.atUnmount = sess[s].st]
                 ELSE sess[s]]
  /\ UNCHANGED <<inst, mediaRecorderRef, chunksRef, animationRef>>
  /\ UNCHANGED notRec

\* back to the transcribe tab: a fresh Recorder instance
mountRecorder ==
  /\ ~Mounted
  /\ inst < MaxMounts
  /\ activeTab' = "transcribe"
  /\ inst' = inst + 1
  /\ recording' = FALSE
  /\ UNCHANGED <<mediaRecorderRef, chunksRef, animationRef, loops, audioCtxRef,
                 sess>>
  /\ UNCHANGED notRec

\* ------------------------------------------------ claims on the Recorder
LiveStreams == {s \in Sessions : sess[s].live}

\* C1: at most one microphone capture stream is live at any time, whatever
\* the sequence of Start/Stop clicks (a second Start click while the first
\* getUserMedia promise is pending included).
C1_AtMostOneStream == Cardinality(LiveStreams) <= 1

\* C3: the blob handed to onStop for a session is the concatenation, in
\* arrival order, of exactly the non-empty chunks that session's recorder
\* delivered.
C3_BlobIsOwnChunks ==
  \A s \in Sessions :
    sess[s].blob # NoBlob => sess[s].blob = Blob(sess[s].got)

\* a Stop click changes nothing: the recorder the ref names is not recording
StopHasNoEffect ==
  LET rec == mediaRecorderRef[inst] IN rec = 0 \/ sess[rec].st # "recording"

\* nothing pending can make Stop effective again for the mounted instance
NothingPending ==
  \A s \in Sessions :
    sess[s].inst = inst => /\ sess[s].st # "gum"
                           /\ ~(sess[s].st = "ready" /\ sess[s].timer)

\* C4: the Recorder never stays in recording = true with an inactive recorder
\* on which the Stop button has no effect.
C4_NeverStuckRecording ==
  ~(Mounted /\ recording /\ StopHasNoEffect /\ NothingPending)

\* C5: once the Recorder is unmounted while a recording is active or while the
\* delayed start is pending, that session neither keeps nor begins recording,
\* does not hold the microphone, and does not call onStop.
C5_UnmountReleases ==
  \A s \in Sessions :
    sess[s].atUnmount \in {"ready", "recording"} =>
      /\ ~sess[s].live
      /\ sess[s].st # "recording"
      /\ ~sess[s].timer
      /\ ~sess[s].orphanStop

\* ================================================ Row (DatasetManager.jsx)
Rows == 1..MaxRows
RowSessions == 1..MaxRowSessions
Null == -1

NewRowSession ==
  [st |-> "unused", row |-> 0, live |-> FALSE, events |-> <<>>,
   stopHandled |-> FALSE, blob |-> NoBlob, upload |-> "none",
   alerted |-> FALSE, confirmed |-> FALSE]

\* Row useState/useRef initial values, for rows already rendered from the list
RowInit ==
  /\ rowEditing = [r \in Rows |-> FALSE]
  /\ rowIsRecording = [r \in Rows |-> FALSE]
  /\ rowRecorderRef = [r \in Rows |-> 0]
  /\ rowChunksRef = [r \in Rows |-> <<>>]
  /\ rowSaves = [r \in Rows |-> 0]
  /\ rsess = [k \in RowSessions |-> NewRowSession]
  /\ refetches = 0

\* onFocusRow={() => setCurrentIdx(i)}, i the 0-based index of the row
onFocusRow(r) == currentIdx' = r - 1

\* <div ... onMouseDown={onFocusRow} onFocus={onFocusRow}> around the play,
\* record and edit buttons and the input of a row: pressing any of them
\* focuses the row before the button's own click handler runs
rowMouseDown(r) ==
  /\ onFocusRow(r)
  /\ UNCHANGED <<notRow, rowVars>>

\* mediaRecorder.stop() / the recorder stopping itself: inactive at once, the
\* recorded data and the stop event are queued (start() has no timeslice)
RowStopQueued(k, c) ==
  [rsess[k] EXCEPT !.st = "inactive", !.events = <<DataEvent(c), StopEvent>>]

RowData(k) == {EmptyChunk, Chunk(k, 1)}

\* a guard that lets the handler go on whatever the dialog answered
ProceedsAlways(answer) == TRUE

\* if (!window.confirm(...)) return;
Proceeds(answer) == answer

\* record button click while not recording, the user answering the
\* confirmation dialog with `answer`: return, or onFocusRow() and
\* getUserMedia is requested (the session remembers the answer)
handleRecordAnswered(r, answer) ==
  /\ ~rowEditing[r]
  /\ ~rowIsRecording[r]
  /\ IF Proceeds(answer)
       THEN /\ onFocusRow(r)
            /\ \E k \in RowSessions :
                 /\ rsess[k].st = "unused"
                 /\ \A j \in RowSessions : j < k => rsess[j].st # "unused"
                 /\ rsess' = [rsess EXCEPT ![k].st = "gum", ![k].row = r,
                                           ![k].confirmed = answer]
            /\ UNCHANGED <<notRow, rowEditing, rowIsRecording, rowRecorderRef,
                           rowChunksRef, rowSaves, refetches>>
       ELSE UNCHANGED vars

\* record button click while not recording, confirmation declined
handleRecordDeclined(r) == handleRecordAnswered(r, FALSE)

\* record button click while not recording, confirmation accepted
handleRecordStart(r) == handleRecordAnswered(r, TRUE)

\* record button click while isRecording: mediaRecorderRef.current?.stop();
\* setIsRecording(false).  stop() on an inactive recorder throws, and the
\* handler ends before setIsRecording(false)
handleRecordStop(r) ==
  LET k == rowRecorderRef[r] IN
  /\ ~rowEditing[r]
  /\ rowIsRecording[r]
  /\ IF k = 0
       THEN /\ rowIsRecording' = [rowIsRecording EXCEPT ![r] = FALSE]
            /\ UNCHANGED rsess
       ELSE IF rsess[k].st = "recording"
         THEN /\ \E c \in RowData(k) :
                   rsess' = [rsess EXCEPT ![k] = RowStopQueued(k, c)]
              /\ rowIsRecording' = [rowIsRecording EXCEPT ![r] = FALSE]
         ELSE UNCHANGED <<rsess, rowIsRecording>>
  /\ UNCHANGED <<notRow, currentIdx, rowEditing, rowRecorderRef, rowChunksRef,
                 rowSaves, refetches>>

\* getUserMedia rejects in the row: the catch block logs with console.error
\* and calls neither alert nor showToast, so `alerted` stays FALSE
rowGumRejected(k) ==
  /\ rsess[k].st = "gum"
  /\ rsess' = [rsess EXCEPT ![k].st = "denied"]
  /\ UNCHANGED <<notRow, currentIdx, rowEditing, rowIsRecording,
                 rowRecorderRef, rowChunksRef, rowSaves, refetches>>

\* getUserMedia resolves in the row: recorder created and started at once
rowGumResolved(k) ==
  LET r == rsess[k].row IN
  /\ rsess[k].st = "gum"
  /\ rowRecorderRef' = [rowRecorderRef EXCEPT ![r] = k]
  /\ rowChunksRef' = [rowChunksRef EXCEPT ![r] = <<>>]
  /\ rsess' = [rsess EXCEPT ![k].st = "recording", ![k].live = TRUE]
  /\ rowIsRecording' = [rowIsRecording EXCEPT ![r] = TRUE]
  /\ UNCHANGED <<notRow, currentIdx, rowEditing, rowSaves, refetches>>

\* the tracks of a row's stream end by themselves while it records
rowTrackEnded(k) ==
  /\ rsess[k].st = "recording"
  /\ rsess[k].live
  /\ \E c \in RowData(k) :
       rsess' = [rsess EXCEPT ![k] = [RowStopQueued(k, c) EXCEPT !.live = FALSE]]
  /\ UNCHANGED <<notRow, currentIdx, rowEditing, rowIsRecording,
                 rowRecorderRef, rowChunksRef, rowSaves, refetches>>

\* mediaRecorder.onstop of the row: blob from chunksRef.current, POST
\* /dataset/update_audio; the stream's tracks are left as they are
rowOnstop(k) ==
  LET r == rsess[k].row IN
  rsess' = [rsess EXCEPT ![k].events = Tail(@),
                         ![k].stopHandled = TRUE,
                         ![k].blob = Blob(rowChunksRef[r]),
                         ![k].upload = "sent"]

\* the next queued media event of a row session is dispatched;
\* ondataavailable pushes e.data whatever its size
rowMediaEvent(k) ==
  LET r == rsess[k].row IN
  /\ rsess[k].events # <<>>
  /\ LET e == Head(rsess[k].events) IN
       IF e.t = "data"
         THEN /\ rowChunksRef' = [rowChunksRef EXCEPT ![r] = Append(@, e.c)]
              /\ rsess' = [rsess EXCEPT ![k].events = Tail(@)]
         ELSE /\ rowOnstop(k)
              /\ UNCHANGED rowChunksRef
  /\ UNCHANGED <<notRow, currentIdx, rowEditing, rowIsRecording,
                 rowRecorderRef, rowSaves, refetches>>

\* the /dataset/update_audio response: status ok -> onUpdated(); any other
\* status is ignored, an error is logged
updateAudioResponse(k, outcome) ==
  /\ rsess[k].upload = "sent"
  /\ rsess' = [rsess EXCEPT ![k].upload = outcome]
  /\ refetches' = IF outcome = "ok" THEN refetches + 1 ELSE refetches
  /\ UNCHANGED <<notRow, currentIdx, rowEditing, rowIsRecording,
                 rowRecorderRef, rowChunksRef, rowSaves>>

\* edit button click: when editing, onSave(val) is awaited first
toggleEdit(r) ==
  /\ IF rowEditing[r]
       THEN /\ rowSaves[r] < MaxSaves
            /\ rowSaves' = [rowSaves EXCEPT ![r] = @ + 1]
            /\ UNCHANGED <<rowEditing, currentIdx>>
       ELSE /\ rowEditing' = [rowEditing EXCEPT ![r] = TRUE]
            /\ onFocusRow(r)
            /\ UNCHANGED rowSaves
  /\ UNCHANGED <<notRow, rowIsRecording, rowRecorderRef, rowChunksRef, rsess,
                 refetches>>

\* onSave(val) settles: setEditing(!editing) with the `editing` the click saw
\* (true), then onFocusRow()
toggleEditSaved(r) ==
  /\ rowSaves[r] > 0
  /\ rowSaves' = [rowSaves EXCEPT ![r] = @ - 1]
  /\ rowEditing' = [rowEditing EXCEPT ![r] = FALSE]
  /\ onFocusRow(r)
  /\ UNCHANGED <<notRow, rowIsRecording, rowRecorderRef, rowChunksRef, rsess,
                 refetches>>

\* ------------------------------------------------ claims on the Row
\* C2: every recording that is stopped ends with the capture device released:
\* once the recorder's stop event has been handled, the tracks of the stream
\* obtained for that recording are stopped.
C2_StoppedRecordingReleasesDevice ==
  \A k \in RowSessions : rsess[k].stopHandled => ~rsess[k].live


\* ================================================ DatasetManager
\* characters, file names and texts
NameA == <<"a">>
NameB == <<"b">>
NewName == <<"c">>            \* the name the backend gives to an added room
AllNames == {NameA, NameB, NewName}
TextX == <<"x">>
TypedTexts == {<<" ", "y">>, <<" ">>}   \* what the user types
Unmounted == <<"unmounted">>

RECURSIVE TrimLeft(_)
TrimLeft(s) ==
  IF s # <<>> /\ Head(s) = " " THEN TrimLeft(Tail(s)) ELSE s

RECURSIVE TrimRight(_)
TrimRight(s) ==
  IF s # <<>> /\ s[Len(s)] = " " THEN TrimRight(SubSeq(s, 1, Len(s) - 1)) ELSE s

\* String.prototype.trim
Trim(s) == TrimRight(TrimLeft(s))

Sample(n, t) == [file_name |-> n, text |-> t]

NamesOf(list) == {list[i].file_name : i \in 1..Len(list)}

Min(a, b) == IF a < b THEN a ELSE b
Max(a, b) == IF a > b THEN a ELSE b

\* prev.findIndex((s) => s.file_name === file_name), 0-based, -1 if absent
findIndex(list, n) ==
  IF n \in NamesOf(list)
    THEN (CHOOSE i \in 1..Len(list) :
            /\ list[i].file_name = n
            /\ \A j \in 1..(i - 1) : list[j].file_name # n) - 1
    ELSE -1

\* prev.filter((s) => s.file_name !== file_name)
RECURSIVE filterOut(_, _)
filterOut(list, n) ==
  IF list = <<>> THEN <<>>
  ELSE IF Head(list).file_name # n
    THEN <<Head(list)>> \o filterOut(Tail(list), n)
    ELSE filterOut(Tail(list), n)

\* prev.map((s) => s.file_name === cleanName ? { ...s, text: cleanText } : s)
mapText(list, n, txt) ==
  [i \in 1..Len(list) |->
     IF list[i].file_name = n THEN Sample(n, txt) ELSE list[i]]

\* initialText={s.text || s[" text"] || ""}
initialText(s) == s.text

\* React reconciliation of the keyed rows after setSamples(rows): a row whose
\* key stays keeps its state, a new key mounts with useState(initialText)
RenderVal(rows) ==
  [n \in AllNames |->
     IF n \in NamesOf(rows)
       THEN IF val[n] # Unmounted
              THEN val[n]
              ELSE initialText(rows[findIndex(rows, n) + 1])
       ELSE Unmounted]

RenderEditing(rows) ==
  [n \in AllNames |-> n \in NamesOf(rows) /\ editing[n]]

Render(rows) ==
  /\ samples' = rows
  /\ val' = RenderVal(rows)
  /\ editing' = RenderEditing(rows)

\* showToast(msg); its 2 s timer is the action toastTimeout
showToast(msg) == toast' = msg

Request(id, kind, origin, file, text, idx) ==
  [id |-> id, kind |-> kind, origin |-> origin, file |-> file, text |-> text,
   idx |-> idx, phase |-> "sent", rows |-> <<>>, missed |-> {}]

Send(kind, origin, file, text, idx) ==
  /\ Cardinality(net) < MaxInFlight
  /\ net' = net \cup {Request(issued + 1, kind, origin, file, text, idx)}
  /\ issued' = issued + 1

InitialLists ==
  {<<>>, <<Sample(NameA, TextX), Sample(NameB, TextX)>>}

\* DatasetManager useState initial values; the backend holds some dataset
DsInit ==
  /\ dsMounted = FALSE
  /\ samples = <<>>
  /\ loading = FALSE
  /\ adding = FALSE
  /\ toast = ""
  /\ val = [n \in AllNames |-> Unmounted]
  /\ editing = [n \in AllNames |-> FALSE]
  /\ net = {}
  /\ issued = 0
  /\ clicks = 0
  /\ addTimers = 0
  /\ listLog = <<>>
  /\ serverList \in InitialLists

\* ------------------------------------------------ backend (external service)
\* the backend carries out a request and answers status ok
serverAnswers(q) ==
  /\ q \in net
  /\ q.phase = "sent"
  /\ q.kind = "add_empty" => NewName \notin NamesOf(serverList)
  /\ serverList' =
       CASE q.kind = "list" -> serverList
         [] q.kind = "delete" -> filterOut(serverList, q.file)
         [] q.kind = "update" -> mapText(serverList, q.file, q.text)
         [] q.kind = "add_empty" -> Append(serverList, Sample(NewName, <<>>))
  /\ net' = (net \ {q}) \cup
       {[q EXCEPT !.phase = "answered",
                  !.rows = IF q.kind = "list" THEN serverList ELSE <<>>]}
  /\ UNCHANGED <<dsMounted, samples, loading, adding, toast, val, editing,
                 issued, clicks, addTimers, listLog, currentIdx>>
  /\ UNCHANGED notDs

\* what the promise of request q can settle with: "ok" (status ok) once the
\* backend has carried it out; "failed" (a 2xx body whose status is not ok,
\* resp. that has no `samples`) when the backend refused it; "error" (a
\* non-2xx status or a network failure, axios throws) at any time
Outcomes(q) ==
  (IF q.phase = "answered" THEN {"ok"} ELSE {"failed"}) \cup {"error"}

Settles(q, kind, outcome) ==
  q \in net /\ q.kind = kind /\ outcome \in Outcomes(q)

\* ------------------------------------------------ list
\* fetchSamples up to the await: setLoading(true), GET /dataset/list
fetchSamples(origin) ==
  /\ loading' = TRUE
  /\ Send("list", origin, <<>>, <<>>, Null)

\* useEffect(() => { fetchSamples(); ... }, [])
mountDataset ==
  /\ ~dsMounted
  /\ dsMounted' = TRUE
  /\ fetchSamples("mount")
  /\ UNCHANGED <<samples, adding, toast, val, editing, clicks, addTimers,
                 listLog, serverList, currentIdx>>
  /\ UNCHANGED notDs

\* Refresh button
refreshClick ==
  /\ dsMounted
  /\ clicks < MaxClicks
  /\ clicks' = clicks + 1
  /\ fetchSamples("refresh")
  /\ UNCHANGED <<dsMounted, samples, adding, toast, val, editing, addTimers,
                 listLog, serverList, currentIdx>>
  /\ UNCHANGED notDs

\* idx == null ? null : Math.min(idx, Math.max(0, rows.length - 1))
clampIdx(idx, rows) ==
  IF idx = Null THEN Null ELSE Min(idx, Max(0, Len(rows) - 1))

\* a fetch that would show the backend's dataset as it is on arrival
rowsOfCurrent(q, outcome) == IF outcome = "ok" THEN serverList ELSE <<>>

\* res.data?.samples || []
rowsOf(q, outcome) == IF outcome = "ok" THEN q.rows ELSE <<>>

\* fetchSamples after the await.  When addNewRecord awaited it, addNewRecord
\* goes on: setTimeout(..., 200) and, in its finally, setAdding(false)
listResponse(q, outcome) ==
  /\ Settles(q, "list", outcome)
  /\ net' = net \ {q}
  /\ loading' = FALSE
  /\ IF outcome = "error"
       THEN /\ showToast("loadFailed")
            /\ UNCHANGED <<samples, val, editing, currentIdx, listLog>>
       ELSE /\ Render(rowsOf(q, outcome))
            /\ currentIdx' = clampIdx(currentIdx, rowsOf(q, outcome))
            /\ listLog' = <<q.id>> \o SubSeq(listLog, 1, Min(1, Len(listLog)))
            /\ UNCHANGED toast
  /\ IF q.origin = "add"
       THEN /\ addTimers' = addTimers + 1
            /\ adding' = FALSE
       ELSE UNCHANGED <<addTimers, adding>>
  /\ UNCHANGED <<dsMounted, issued, clicks, serverList>>
  /\ UNCHANGED notDs

\* ------------------------------------------------ add
\* "Add New Voice Room" button (disabled while adding)
addNewRecord ==
  /\ dsMounted
  /\ ~adding
  /\ clicks < MaxClicks
  /\ clicks' = clicks + 1
  /\ adding' = TRUE
  /\ Send("add_empty", "click", <<>>, <<>>, Null)
  /\ UNCHANGED <<dsMounted, samples, loading, toast, val, editing, addTimers,
                 listLog, serverList, currentIdx>>
  /\ UNCHANGED notDs

\* addNewRecord after await axios.post(add_empty)
addResponse(q, outcome) ==
  /\ Settles(q, "add_empty", outcome)
  /\ IF outcome = "ok"
       THEN /\ showToast("added")
            /\ loading' = TRUE
            /\ net' = (net \ {q}) \cup
                        {Request(issued + 1, "list", "add", <<>>, <<>>, Null)}
            /\ issued' = issued + 1
            /\ UNCHANGED adding
       ELSE /\ showToast("addFailed")
            /\ adding' = FALSE
            /\ net' = net \ {q}
            /\ UNCHANGED <<loading, issued>>
  /\ UNCHANGED <<dsMounted, samples, val, editing, clicks, addTimers, listLog,
                 serverList, currentIdx>>
  /\ UNCHANGED notDs

\* the 200 ms timer of addNewRecord: currentIdx from the rows in the DOM
addTimer ==
  /\ addTimers > 0
  /\ addTimers' = addTimers - 1
  /\ currentIdx' = IF Len(samples) # 0 THEN Len(samples) - 1 ELSE Null
  /\ UNCHANGED <<dsMounted, samples, loading, adding, toast, val, editing, net,
                 issued, clicks, listLog, serverList>>
  /\ UNCHANGED notDs

\* ------------------------------------------------ delete
\* delete button of row n, the user answering the confirmation dialog with
\* `answer`: return, or POST /dataset/delete (the request remembers the answer
\* it was sent under)
deleteSampleAnswered(n, answer) ==
  /\ n \in NamesOf(samples)
  /\ IF Proceeds(answer)
       THEN /\ clicks < MaxClicks
            /\ clicks' = clicks + 1
            /\ Send("delete", IF answer THEN "accepted" ELSE "declined", n,
                    <<>>, Null)
            /\ UNCHANGED <<dsMounted, samples, loading, adding, toast, val,
                           editing, addTimers, listLog, serverList, currentIdx>>
            /\ UNCHANGED notDs
       ELSE UNCHANGED vars

\* delete button of row n, confirmation declined
deleteSampleDeclined(n) == deleteSampleAnswered(n, FALSE)

\* delete button of row n, confirmation accepted
deleteSample(n) == deleteSampleAnswered(n, TRUE)

\* a setSamples updater that cuts the list at the deleted row
deleteUpdaterCutsTail(prev, n) ==
  IF findIndex(prev, n) = -1 THEN prev ELSE SubSeq(prev, 1, findIndex(prev, n))

\* the setSamples updater of deleteSample: the list without file_name
deleteUpdater(prev, n) == filterOut(prev, n)

\* the setCurrentIdx call made inside that updater
deleteIdx(prev, n) ==
  LET idx == findIndex(prev, n)
      next == filterOut(prev, n)
  IN IF idx # -1
       THEN IF Len(next) # 0 THEN Min(idx, Max(0, Len(next) - 1)) ELSE Null
       ELSE currentIdx

\* bookkeeping, no program state: a list request that was issued before the
\* delete request d notes the file whose deletion has now been applied locally
Missing(r, d) ==
  IF r.kind = "list" /\ r.id < d.id
    THEN [r EXCEPT !.missed = @ \cup {d.file}]
    ELSE r

\* deleteSample after await axios.post(delete)
deleteResponse(q, outcome) ==
  /\ Settles(q, "delete", outcome)
  /\ net' = IF outcome = "ok" THEN {Missing(r, q) : r \in net \ {q}}
                              ELSE net \ {q}
  /\ IF outcome = "ok"
       THEN /\ Render(deleteUpdater(samples, q.file))
            /\ currentIdx' = deleteIdx(samples, q.file)
            /\ showToast("deleted")
       ELSE /\ showToast("deleteFailed")
            /\ UNCHANGED <<samples, val, editing, currentIdx>>
  /\ UNCHANGED <<dsMounted, loading, adding, issued, clicks, addTimers,
                 listLog, serverList>>
  /\ UNCHANGED notDs

\* ------------------------------------------------ edit
\* onMouseDown / onFocus of row n
focusRow(n) ==
  /\ n \in NamesOf(samples)
  /\ clicks < MaxClicks
  /\ clicks' = clicks + 1
  /\ currentIdx' = findIndex(samples, n)
  /\ UNCHANGED <<dsMounted, samples, loading, adding, toast, val, editing, net,
                 issued, addTimers, listLog, serverList>>
  /\ UNCHANGED notDs

\* edit button of row n while not editing: setEditing(true); onFocusRow()
editStart(n) ==
  /\ n \in NamesOf(samples)
  /\ ~editing[n]
  /\ clicks < MaxClicks
  /\ clicks' = clicks + 1
  /\ editing' = [editing EXCEPT ![n] = TRUE]
  /\ currentIdx' = findIndex(samples, n)
  /\ UNCHANGED <<dsMounted, samples, loading, adding, toast, val, net, issued,
                 addTimers, listLog, serverList>>
  /\ UNCHANGED notDs

\* onChange of the input of row n (read-only unless editing)
editType(n, txt) ==
  /\ n \in NamesOf(samples)
  /\ editing[n]
  /\ clicks < MaxClicks
  /\ clicks' = clicks + 1
  /\ val' = [val EXCEPT ![n] = txt]
  /\ UNCHANGED <<dsMounted, samples, loading, adding, toast, editing, net,
                 issued, addTimers, listLog, serverList, currentIdx>>
  /\ UNCHANGED notDs

\* edit button of row n while editing: await onSave(val) = updateText(n, val).
\* Empty clean name or text: toast and return, then toggleEdit goes on with
\* setEditing(false); onFocusRow().  Otherwise POST /dataset/update.
editSave(n) ==
  LET cleanName == Trim(n)
      cleanText == Trim(val[n])
      i == findIndex(samples, n)
  IN
  /\ n \in NamesOf(samples)
  /\ editing[n]
  /\ clicks < MaxClicks
  /\ clicks' = clicks + 1
  /\ IF cleanName = <<>> \/ cleanText = <<>>
       THEN /\ showToast("emptyIgnored")
            /\ editing' = [editing EXCEPT ![n] = FALSE]
            /\ currentIdx' = i
            /\ UNCHANGED <<net, issued>>
       ELSE /\ Send("update", n, cleanName, cleanText, i)
            /\ UNCHANGED <<toast, editing, currentIdx>>
  /\ UNCHANGED <<dsMounted, samples, loading, adding, val, addTimers, listLog,
                 serverList>>
  /\ UNCHANGED notDs

\* updateText after await axios.post(update), then the rest of toggleEdit:
\* setEditing(!editing) of the row that was clicked, onFocusRow() with the
\* index the row had at the click
updateResponse(q, outcome) ==
  /\ Settles(q, "update", outcome)
  /\ net' = net \ {q}
  /\ IF outcome = "ok"
       THEN /\ showToast("updated")
            /\ samples' = mapText(samples, q.file, q.text)
       ELSE /\ showToast("updateFailed")
            /\ UNCHANGED samples
  /\ editing' = [editing EXCEPT ![q.origin] = FALSE]
  /\ currentIdx' = q.idx
  /\ UNCHANGED <<dsMounted, loading, adding, val, issued, clicks, addTimers,
                 listLog, serverList>>
  /\ UNCHANGED notDs

\* setTimeout(() => setToast(""), 2000)
toastTimeout ==
  /\ toast # ""
  /\ toast' = ""
  /\ UNCHANGED <<dsMounted, samples, loading, adding, val, editing, net,
                 issued, clicks, addTimers, listLog, serverList, currentIdx>>
  /\ UNCHANGED notDs


\* ================================================ API layer (utils/api.js)
ApiFunctions ==
  {"transcribeAudio", "listSamples", "addSample", "updateSample",
   "deleteSample", "cleanupOrphans", "checkHealth"}

\* what the backend can answer: status line and body
Statuses == {200, 404, 500}
StatusTexts == {<<>>, <<"E", "r", "r">>}
Bodies == {<<>>, <<"n", "o">>}

\* messages of the errors the browser raises
FetchError == <<"f", "e", "t", "c", "h">>
BodyError == <<"b", "o", "d", "y">>
JsonError == <<"j", "s", "o", "n">>

DigitChar(d) == <<"0", "1", "2", "3", "4", "5", "6", "7", "8", "9">>[d + 1]

\* how a template literal prints a number: its decimal digits
RECURSIVE ToDigits(_)
ToDigits(n) ==
  IF n < 10 THEN <<DigitChar(n)>>
  ELSE ToDigits(n \div 10) \o <<DigitChar(n % 10)>>

\* String.prototype.includes
Includes(s, sub) ==
  \E i \in 1..(Len(s) - Len(sub) + 1) : SubSeq(s, i, i + Len(sub) - 1) = sub

\* Response.ok
ResOk(status) == status \in 200..299

\* an error message that leaves the status line out
ErrorMessageBodyOnly(status, statusText, text) == text

\* `${res.status} ${res.statusText}: ${text}`
ErrorMessage(status, statusText, text) ==
  ToDigits(status) \o <<" ">> \o statusText \o <<":", " ">> \o text

\* JSON values a call can resolve with: an object (with or without the key
\* `samples`), an array, null; JsonNone before the call has resolved
JsonObject(hasSamples, items) ==
  [type |-> "object", hasSamples |-> hasSamples, items |-> items]
JsonArray(items) == [type |-> "array", hasSamples |-> FALSE, items |-> items]
JsonNull == [type |-> "null", hasSamples |-> FALSE, items |-> <<>>]
JsonNone == [type |-> "none", hasSamples |-> FALSE, items |-> <<>>]

\* bodies of 2xx responses
JsonBodies ==
  {JsonObject(TRUE, <<>>), JsonObject(TRUE, <<NameA>>), JsonObject(FALSE, <<>>)}

NewApiCall(fn) ==
  [fn |-> fn, st |-> "fetch", status |-> 0, bodyRead |-> FALSE,
   outcome |-> "none", value |-> JsonNone, body |-> JsonNone,
   message |-> <<>>]

ApiInit == apiCalls = <<>>

\* each exported function up to its await fetch(...)
apiCall(fn) ==
  /\ Len(apiCalls) < MaxApiCalls
  /\ apiCalls' = Append(apiCalls, NewApiCall(fn))
  /\ UNCHANGED notApi

transcribeAudio == apiCall("transcribeAudio")
listSamples == apiCall("listSamples")
addSample == apiCall("addSample")
updateSample == apiCall("updateSample")
apiDeleteSample == apiCall("deleteSample")
cleanupOrphans == apiCall("cleanupOrphans")
checkHealth == apiCall("checkHealth")

\* the catch block of the function: checkHealth logs and returns null, the
\* others log and rethrow
Catch(c, msg) ==
  IF apiCalls[c].fn = "checkHealth"
    THEN [apiCalls[c] EXCEPT !.st = "settled", !.outcome = "resolved",
                             !.value = JsonNull]
    ELSE [apiCalls[c] EXCEPT !.st = "settled", !.outcome = "rejected",
                             !.message = msg]

\* fetch resolves with a response; handleResponse up to its first await
handleResponse(c, status) ==
  /\ c \in DOMAIN apiCalls
  /\ apiCalls[c].st = "fetch"
  /\ apiCalls' = [apiCalls EXCEPT ![c] =
       [@ EXCEPT !.status = status,
                 !.st = IF ~ResOk(status) THEN "text" ELSE "json"]]
  /\ UNCHANGED notApi

\* fetch rejects (network failure)
fetchRejects(c) ==
  /\ c \in DOMAIN apiCalls
  /\ apiCalls[c].st = "fetch"
  /\ apiCalls' = [apiCalls EXCEPT ![c] = Catch(c, FetchError)]
  /\ UNCHANGED notApi

\* await res.text() resolves with the body; the status text came with the
\* response and is first used here: throw new Error(...)
textResolves(c, statusText, text) ==
  /\ c \in DOMAIN apiCalls
  /\ apiCalls[c].st = "text"
  /\ apiCalls' = [apiCalls EXCEPT ![c] =
       [Catch(c, ErrorMessage(apiCalls[c].status, statusText, text))
          EXCEPT !.bodyRead = TRUE]]
  /\ UNCHANGED notApi

\* await res.text() rejects: the body cannot be read
textRejects(c) ==
  /\ c \in DOMAIN apiCalls
  /\ apiCalls[c].st = "text"
  /\ apiCalls' = [apiCalls EXCEPT ![c] = Catch(c, BodyError)]
  /\ UNCHANGED notApi

\* the parsed body as the function hands it to its caller
Returned(fn, body) == body

\* return res.json() resolves with the parsed body
jsonResolves(c, body) ==
  /\ c \in DOMAIN apiCalls
  /\ apiCalls[c].st = "json"
  /\ apiCalls' = [apiCalls EXCEPT ![c] =
       [@ EXCEPT !.st = "settled", !.outcome = "resolved",
                 !.value = Returned(apiCalls[c].fn, body), !.body = body,
                 !.bodyRead = TRUE]]
  /\ UNCHANGED notApi

\* return res.json() rejects: the body is not JSON
jsonRejects(c) ==
  /\ c \in DOMAIN apiCalls
  /\ apiCalls[c].st = "json"
  /\ apiCalls' = [apiCalls EXCEPT ![c] = Catch(c, JsonError)]
  /\ UNCHANGED notApi

\* ================================================ dataset export
Revisions == {"v4.1.8", "v4.1.4", "early"}

AppZip == <<"a", "p", "p", "l", "i", "c", "a", "t", "i", "o", "n", "/", "z", "i", "p">>

\* content-type headers the backend can send with a 2xx response (<<>>: none)
ContentTypes ==
  {AppZip,
   <<"A", "p", "p", "l", "i", "c", "a", "t", "i", "o", "n", "/", "Z", "i", "p">>,
   <<"a", "p", "p", "l", "i", "c", "a", "t", "i", "o", "n", "/", "z", "i", "p", ";", "q">>,
   <<"a", "p", "p", "l", "i", "c", "a", "t", "i", "o", "n", "/", "j", "s", "o", "n">>,
   <<"t", "e", "x", "t", "/", "h", "t", "m", "l">>,
   <<>>}

LowerChar(ch) ==
  CASE ch = "A" -> "a"
    [] ch = "Z" -> "z"
    [] OTHER -> ch

\* String.prototype.toLowerCase
ToLowerCase(s) == [i \in 1..Len(s) |-> LowerChar(s[i])]

NewExport ==
  [st |-> "pending", ct |-> <<>>, failed |-> FALSE, clicked |-> FALSE,
   notice |-> ""]

ExpInit ==
  /\ revision \in Revisions
  /\ exportCalls = <<>>

\* download button: downloadDataset up to await axios.get(/dataset/export)
downloadDataset ==
  /\ Len(exportCalls) < MaxExports
  /\ exportCalls' = Append(exportCalls, NewExport)
  /\ IF revision = "v4.1.8" THEN showToast("preparing") ELSE UNCHANGED toast
  /\ UNCHANGED <<revision, currentIdx>>
  /\ UNCHANGED notExp

\* axios.get resolves (2xx) with content type ct
exportResolves(c, ct) ==
  /\ c \in DOMAIN exportCalls
  /\ exportCalls[c].st = "pending"
  /\ CASE revision = "v4.1.8" ->
            IF ~Includes(ToLowerCase(ct), AppZip)
              THEN /\ exportCalls' = [exportCalls EXCEPT ![c] =
                        [@ EXCEPT !.st = "text", !.ct = ct]]
                   /\ UNCHANGED toast
              ELSE /\ exportCalls' = [exportCalls EXCEPT ![c] =
                        [@ EXCEPT !.st = "done", !.ct = ct, !.clicked = TRUE,
                                  !.notice = "complete"]]
                   /\ showToast("complete")
       [] revision = "v4.1.4" ->
            /\ exportCalls' = [exportCalls EXCEPT ![c] =
                 [@ EXCEPT !.st = "done", !.ct = ct, !.clicked = TRUE,
                           !.notice = "downloaded"]]
            /\ showToast("downloaded")
       [] revision = "early" ->
            /\ exportCalls' = [exportCalls EXCEPT ![c] =
                 [@ EXCEPT !.st = "done", !.ct = ct, !.clicked = TRUE]]
            /\ UNCHANGED toast
  /\ UNCHANGED <<revision, currentIdx>>
  /\ UNCHANGED notExp

\* await new Response(res.data).text().catch(() => "") settles with text:
\* showToast(text || "Download error.")
exportErrorText(c, text) ==
  /\ c \in DOMAIN exportCalls
  /\ exportCalls[c].st = "text"
  /\ exportCalls' = [exportCalls EXCEPT ![c] =
       [@ EXCEPT !.st = "done",
                 !.notice = IF text # <<>> THEN "body" ELSE "downloadError"]]
  /\ showToast(IF text # <<>> THEN "body" ELSE "downloadError")
  /\ UNCHANGED <<revision, currentIdx>>
  /\ UNCHANGED notExp

\* axios.get rejects (non-2xx status or network failure): the catch block
exportRejects(c) ==
  /\ c \in DOMAIN exportCalls
  /\ exportCalls[c].st = "pending"
  /\ exportCalls' = [exportCalls EXCEPT ![c] =
       [@ EXCEPT !.st = "done", !.failed = TRUE,
                 !.notice = IF revision = "early" THEN "alert"
                            ELSE "downloadFailed"]]
  /\ IF revision = "early" THEN UNCHANGED toast
     ELSE showToast("downloadFailed")
  /\ UNCHANGED <<revision, currentIdx>>
  /\ UNCHANGED notExp

\* ================================================ playback
Audios == 1..MaxAudios

NewAudio == [row |-> 0, st |-> "unused"]

PlayRevisions == {"live", "part_005", "part_003"}

PlayInit ==
  /\ rowIsPlaying = [r \in Rows |-> FALSE]
  /\ rowAudioRef = [r \in Rows |-> 0]
  /\ audios = [a \in Audios |-> NewAudio]
  /\ playRevision \in PlayRevisions
  /\ recPlays = <<>>
  /\ touchArmed = {}

\* HTMLMediaElement.pause(): a playing element pauses; an element whose play()
\* is pending has that promise rejected (the catch of handlePlay only logs)
Pause(a) ==
  CASE audios[a].st = "playing" -> [audios EXCEPT ![a].st = "paused"]
    [] audios[a].st = "loading" -> [audios EXCEPT ![a].st = "failed"]
    [] OTHER -> audios

\* play button of row r: Row.handlePlay up to its await (or its return)
handlePlay(r) ==
  /\ ~rowEditing[r]
  /\ onFocusRow(r)
  /\ IF rowIsPlaying[r] /\ rowAudioRef[r] # 0
       THEN /\ audios' = Pause(rowAudioRef[r])
            /\ rowIsPlaying' = [rowIsPlaying EXCEPT ![r] = FALSE]
            /\ UNCHANGED rowAudioRef
       ELSE /\ \E a \in Audios :
                 /\ audios[a].st = "unused"
                 /\ \A b \in 1..(a - 1) : audios[b].st # "unused"
                 /\ audios' = [audios EXCEPT ![a] = [row |-> r, st |-> "loading"]]
                 /\ rowAudioRef' = [rowAudioRef EXCEPT ![r] = a]
            /\ UNCHANGED rowIsPlaying
  /\ UNCHANGED <<playRevision, recPlays, touchArmed>>
  /\ UNCHANGED notPlay

\* await audio.play() resolves: setIsPlaying(true)
playResolved(a) ==
  /\ audios[a].st = "loading"
  /\ audios' = [audios EXCEPT ![a].st = "playing"]
  /\ rowIsPlaying' = [rowIsPlaying EXCEPT ![audios[a].row] = TRUE]
  /\ UNCHANGED <<rowAudioRef, playRevision, recPlays, touchArmed, currentIdx>>
  /\ UNCHANGED notPlay

\* await audio.play() rejects: console.error
playRejected(a) ==
  /\ audios[a].st = "loading"
  /\ audios' = [audios EXCEPT ![a].st = "failed"]
  /\ UNCHANGED <<rowIsPlaying, rowAudioRef, playRevision, recPlays,
                 touchArmed, currentIdx>>
  /\ UNCHANGED notPlay

\* audio.onended = () => setIsPlaying(false)
audioEnded(a) ==
  /\ audios[a].st = "playing"
  /\ audios' = [audios EXCEPT ![a].st = "ended"]
  /\ rowIsPlaying' = [rowIsPlaying EXCEPT ![audios[a].row] = FALSE]
  /\ UNCHANGED <<rowAudioRef, playRevision, recPlays, touchArmed, currentIdx>>
  /\ UNCHANGED notPlay

\* ---- the play button of the Recorder
PlayCall(by) == [by |-> by, st |-> "pending"]

\* play button: audio.play() on the clip
playRecording ==
  /\ Cardinality({i \in DOMAIN recPlays : recPlays[i].by = "click"}) < MaxPlays
  /\ recPlays' = Append(recPlays, PlayCall("click"))
  /\ UNCHANGED <<rowIsPlaying, rowAudioRef, audios, playRevision, touchArmed,
                 currentIdx>>
  /\ UNCHANGED notPlay

recPlayResolves(i) ==
  /\ i \in DOMAIN recPlays
  /\ recPlays[i].st = "pending"
  /\ recPlays' = [recPlays EXCEPT ![i].st = "playing"]
  /\ UNCHANGED <<rowIsPlaying, rowAudioRef, audios, playRevision, touchArmed,
                 currentIdx>>
  /\ UNCHANGED notPlay

\* the play() promise rejects.  live: alert.  part_005: the element is cloned
\* and fresh.play() is called at once.  part_003: a once-only touchend
\* listener that calls audio.play() is added.  A rejection of that second
\* play() is swallowed by .catch(() => {}).
recPlayRejects(i) ==
  /\ i \in DOMAIN recPlays
  /\ recPlays[i].st = "pending"
  /\ IF recPlays[i].by = "click"
       THEN CASE playRevision = "live" ->
                   /\ recPlays' = [recPlays EXCEPT ![i].st = "alerted"]
                   /\ UNCHANGED touchArmed
              [] playRevision = "part_005" ->
                   /\ recPlays' = Append([recPlays EXCEPT ![i].st = "rejected"],
                                         PlayCall("catch"))
                   /\ UNCHANGED touchArmed
              [] playRevision = "part_003" ->
                   /\ recPlays' = [recPlays EXCEPT ![i].st = "rejected"]
                   /\ touchArmed' = touchArmed \cup {i}
       ELSE /\ recPlays' = [recPlays EXCEPT ![i].st = "rejected"]
            /\ UNCHANGED touchArmed
  /\ UNCHANGED <<rowIsPlaying, rowAudioRef, audios, playRevision, currentIdx>>
  /\ UNCHANGED notPlay

\* the user lifts a finger anywhere on the page: the touchend listener of
\* play call i runs once and calls audio.play()
touchEnd(i) ==
  /\ i \in touchArmed
  /\ touchArmed' = touchArmed \ {i}
  /\ recPlays' = Append(recPlays, PlayCall("touchend"))
  /\ UNCHANGED <<rowIsPlaying, rowAudioRef, audios, playRevision, currentIdx>>
  /\ UNCHANGED notPlay

\* ================================================ MIME type of a recording
Opus == "audio/webm;codecs=opus"
Mp4 == "audio/mp4"

\* the browser: does the isSafari pattern match navigator.userAgent, and does
\* MediaRecorder.isTypeSupported("audio/webm;codecs=opus") answer true
Platforms == [isSafari : BOOLEAN, opus : BOOLEAN]

NewMime == [phase |-> "idle", mimeType |-> "", sizes |-> <<>>, blobType |-> ""]

MimeInit ==
  /\ platform \in Platforms
  /\ mime = [s \in Sessions |-> NewMime]

\* const mimeType = isSafari ? "audio/mp4" : isTypeSupported(...) ? opus : mp4
pickMimeType(p) ==
  IF p.isSafari THEN Mp4
  ELSE IF p.opus THEN Opus
  ELSE Mp4

\* startRecording: the type is picked and handed to new MediaRecorder
startWithMime(s) ==
  /\ mime[s].phase = "idle"
  /\ mime' = [mime EXCEPT ![s].phase = "started",
                          ![s].mimeType = pickMimeType(platform)]
  /\ UNCHANGED platform
  /\ UNCHANGED notMime

\* recorder.ondataavailable: if (e.data.size > 0) chunksRef.current.push(e.data)
mimeData(s, size) ==
  /\ mime[s].phase = "started"
  /\ Len(mime[s].sizes) < MaxChunks + 1
  /\ mime' = [mime EXCEPT ![s].sizes = IF size > 0 THEN Append(@, size) ELSE @]
  /\ UNCHANGED platform
  /\ UNCHANGED notMime

RECURSIVE Sum(_)
Sum(sizes) == IF sizes = <<>> THEN 0 ELSE Head(sizes) + Sum(Tail(sizes))

\* recorder.onstop: new Blob(chunks, { type: mimeType }), replaced by a blob
\* of type audio/mp4 if (!blob.type || blob.size === 0)
blobTypeOf(mimeType, sizes) ==
  IF mimeType = "" \/ Sum(sizes) = 0 THEN Mp4 ELSE mimeType

stopWithMime(s) ==
  /\ mime[s].phase = "started"
  /\ mime' = [mime EXCEPT ![s].phase = "stopped",
                          ![s].blobType = blobTypeOf(mime[s].mimeType,
                                                     mime[s].sizes)]
  /\ UNCHANGED platform
  /\ UNCHANGED notMime

\* ================================================ generated file names
\* local time as the getters of Date give it (getMonth() is 0-based)
Date(y, mo, d, h, mi, s) ==
  [y |-> y, mo |-> mo, d |-> d, h |-> h, mi |-> mi, s |-> s]

Years == {1999, 2025}
Months == {0, 9, 11}
Days == {1, 10, 31}
Hours == {0, 23}
Minutes == {0, 59}
Seconds == {0, 9, 59}

Dates ==
  {Date(y, mo, d, h, mi, s) :
     y \in Years, mo \in Months, d \in Days, h \in Hours, mi \in Minutes,
     s \in Seconds}

ExplicitNames == {<<"m", "y", ".", "w", "a", "v">>}

\* the blob of a recording of one chunk
RecordedBlob == Blob(<<Chunk(1, 1)>>)

\* TranscribePage once the Recorder has handed over a first recording
NameInit ==
  /\ now \in Dates
  /\ ticks = 0
  /\ uploads = <<>>
  /\ manualText = <<>>
  /\ audioBlob = RecordedBlob
  /\ saved = FALSE

\* one second passes (up to the end of the day)
tick ==
  /\ ticks < MaxTicks
  /\ ~(now.h = 23 /\ now.mi = 59 /\ now.s = 59)
  /\ ticks' = ticks + 1
  /\ now' = IF now.s < 59 THEN [now EXCEPT !.s = @ + 1]
            ELSE IF now.mi < 59 THEN [now EXCEPT !.s = 0, !.mi = @ + 1]
            ELSE [now EXCEPT !.s = 0, !.mi = 0, !.h = @ + 1]
  /\ UNCHANGED <<uploads, manualText, audioBlob, saved>>
  /\ UNCHANGED notName

\* String.prototype.padStart(len, "0")
RECURSIVE padStart(_, _)
padStart(s, len) == IF Len(s) >= len THEN s ELSE padStart(<<"0">> \o s, len)

\* a pad that leaves the number as it prints
padNone(n) == ToDigits(n)

\* const pad = (n) => n.toString().padStart(2, "0")
pad(n) == padStart(ToDigits(n), 2)

\* `${prefix}_${getFullYear()}${pad(getMonth() + 1)}${pad(getDate())}_
\*  ${pad(getHours())}${pad(getMinutes())}${pad(getSeconds())}.wav`
generateFileName(prefix, t) ==
  prefix \o <<"_">> \o ToDigits(t.y) \o pad(t.mo + 1) \o pad(t.d) \o <<"_">>
    \o pad(t.h) \o pad(t.mi) \o pad(t.s) \o <<".", "w", "a", "v">>

\* the same template written out in saveToCSV, with the prefix usr
saveToCSVName(t) ==
  <<"u", "s", "r", "_">> \o ToDigits(t.y) \o pad(t.mo + 1) \o pad(t.d) \o <<"_">>
    \o pad(t.h) \o pad(t.mi) \o pad(t.s) \o <<".", "w", "a", "v">>

\* fd.append("file", file, name); fd.append("text", text)
Upload(by, file, text, name, generated) ==
  [by |-> by, file |-> file, text |-> text, name |-> name,
   generated |-> generated, at |-> now, st |-> "sent", fetched |-> FALSE,
   notified |-> FALSE, savedTimer |-> FALSE]

\* the DatasetManager revisions whose mount effect listens for
\* "dataset-updated"
HasListener(rev) == rev = "early"

\* a listener exists while such a DatasetManager is mounted
ListenerRegistered == dsMounted /\ HasListener(revision)

\* App renders one page at a time: TranscribePage is on screen while the
\* DatasetManager is not
TranscribeShown == ~dsMounted

\* the user types the text of the recording
typeManualText ==
  /\ TranscribeShown
  /\ manualText = <<>>
  /\ manualText' = <<"x">>
  /\ UNCHANGED <<now, ticks, uploads, audioBlob, saved>>
  /\ UNCHANGED notName

\* onChange of the text input: setManualText(e.target.value)
setManualText(t) ==
  /\ TranscribeShown
  /\ manualText' = t
  /\ UNCHANGED <<now, ticks, uploads, audioBlob, saved>>
  /\ UNCHANGED notName

\* handleStop({ blob }) called by the Recorder's onstop: `if (!blob) return;
\* setAudioBlob(blob)`; its timer is the action sendAudioOf
handleStop(blob) ==
  /\ TranscribeShown
  /\ audioBlob' = IF blob = NoBlob THEN audioBlob ELSE blob
  /\ UNCHANGED <<now, ticks, uploads, manualText, saved>>
  /\ UNCHANGED notName

\* a test of the text that skips the trim
BlankUntrimmed(t) == t = <<>>

\* !manualText.trim()
Blank(t) == Trim(t) = <<>>

\* Save button: alert if there is no recording or the text is blank,
\* otherwise POST /dataset/add under the generated name
saveToCSV ==
  /\ TranscribeShown
  /\ Len(uploads) < MaxUploads
  /\ IF audioBlob = NoBlob \/ Blank(manualText)
       THEN UNCHANGED uploads
       ELSE uploads' = Append(uploads,
                              Upload("saveToCSV", audioBlob, Trim(manualText),
                                     saveToCSVName(now), TRUE))
  /\ UNCHANGED <<now, ticks, manualText, audioBlob, saved>>
  /\ UNCHANGED notName

\* saveToCSV after the await: status ok -> setSaved(true); setManualText("");
\* window.dispatchEvent(new Event("dataset-updated")), which runs fetchSamples
\* in a DatasetManager that listens (fetched records that it did)
saveResponse(i, outcome) ==
  LET heard == outcome = "ok" /\ ListenerRegistered IN
  /\ i \in DOMAIN uploads
  /\ uploads[i].by = "saveToCSV"
  /\ uploads[i].st = "sent"
  /\ uploads' = [uploads EXCEPT ![i].st = outcome, ![i].fetched = heard,
                                ![i].notified = (outcome = "ok"),
                                ![i].savedTimer = (outcome = "ok")]
  /\ manualText' = IF outcome = "ok" THEN <<>> ELSE manualText
  /\ saved' = IF outcome = "ok" THEN TRUE ELSE saved
  /\ IF heard
       THEN /\ fetchSamples("event")
            /\ UNCHANGED <<dsMounted, samples, adding, toast, val, editing,
                           clicks, addTimers, listLog, serverList>>
       ELSE UNCHANGED dsVars
  /\ UNCHANGED <<now, ticks, audioBlob>>
  /\ UNCHANGED <<recVars, currentIdx, rowVars, apiVars, expVars, playVars,
                 mimeVars, extVars>>

\* setTimeout(() => setSaved(false), 1500) of an ok save fires
savedTimeout(i) ==
  /\ i \in DOMAIN uploads
  /\ uploads[i].savedTimer
  /\ uploads' = [uploads EXCEPT ![i].savedTimer = FALSE]
  /\ saved' = FALSE
  /\ UNCHANGED <<now, ticks, manualText, audioBlob>>
  /\ UNCHANGED notName

\* addSample(file, text, fileName): const name = fileName || generateFileName("usr")
\* (fileName <<>> stands for null, undefined and "")
addSampleAs(fileName) ==
  /\ Len(uploads) < MaxUploads
  /\ uploads' = Append(uploads,
       Upload("addSample", RecordedBlob, TextX,
              IF fileName # <<>> THEN fileName
              ELSE generateFileName(<<"u", "s", "r">>, now),
              fileName = <<>>))
  /\ UNCHANGED <<now, ticks, manualText, audioBlob, saved>>
  /\ UNCHANGED notName

\* ================================================ playback URLs
MaxUrlCalls == 2      \* playback URLs built

\* API_BASE on a local host
ApiBase == <<"h", "t", "t", "p", ":", "/", "/", "1", "2", "7", ".", "0", ".", "0", ".", "1", ":", "1", "0", "0", "0", "0">>

WavsPrefix == <<"w", "a", "v", "s", "/">>
ArchivePrefix == <<"/", "r", "e", "c", "o", "r", "d", "_", "a", "r", "c", "h", "i", "v", "e">>
ArchiveWavs == <<"/", "r", "e", "c", "o", "r", "d", "_", "a", "r", "c", "h", "i", "v", "e", "/", "w", "a", "v", "s", "/">>

\* file names without a directory part
BareNames == {<<"a", ".", "w", "a", "v">>, <<"a", "#", "b">>}

\* the ways a caller may write the file f
Spellings == {"bare", "wavs", "archive"}
Spell(f, how) ==
  CASE how = "bare" -> f
    [] how = "wavs" -> WavsPrefix \o f
    [] how = "archive" -> ArchiveWavs \o f

\* Date.now() values
Stamps == {7, 12}

\* String.prototype.startsWith
StartsWith(s, pre) == Len(s) >= Len(pre) /\ SubSeq(s, 1, Len(pre)) = pre

\* getAudioUrl(fileName)
getAudioUrl(fileName) ==
  IF StartsWith(fileName, ArchivePrefix) THEN ApiBase \o fileName
  ELSE IF StartsWith(fileName, WavsPrefix)
    THEN ApiBase \o ArchivePrefix \o <<"/">> \o fileName
  ELSE ApiBase \o ArchiveWavs \o fileName

\* characters encodeURIComponent leaves as they are (those that occur here)
Unreserved == {"a", "b", "s", "v", "w", "."}

\* the escape sequence encodeURIComponent writes for a reserved character
PercentCode(ch) ==
  CASE ch = "#" -> <<"%", "2", "3">>
    [] ch = "/" -> <<"%", "2", "F">>
    [] ch = " " -> <<"%", "2", "0">>

RECURSIVE encodeURIComponent(_)
encodeURIComponent(s) ==
  IF s = <<>> THEN <<>>
  ELSE (IF Head(s) \in Unreserved THEN <<Head(s)>> ELSE PercentCode(Head(s)))
         \o encodeURIComponent(Tail(s))

\* fileName.replace(/^wavs\//, "")
stripWavs(fileName) ==
  IF StartsWith(fileName, WavsPrefix)
    THEN SubSeq(fileName, Len(WavsPrefix) + 1, Len(fileName))
    ELSE fileName

\* Row.handlePlay: the URL up to the cache-busting query
RowAudioPath(fileName) ==
  ApiBase \o ArchiveWavs \o encodeURIComponent(stripWavs(fileName))

\* Row.handlePlay: the URL given to new Audio()
RowAudioUrl(fileName, stamp) ==
  RowAudioPath(fileName) \o <<"?", "_", "=">> \o ToDigits(stamp)

\* some caller builds the URL of f with getAudioUrl
callGetAudioUrl(f, how) ==
  /\ Len(urlCalls) < MaxUrlCalls
  /\ urlCalls' = Append(urlCalls,
       [by |-> "getAudioUrl", f |-> f, how |-> how,
        path |-> getAudioUrl(Spell(f, how)),
        url |-> getAudioUrl(Spell(f, how))])
  /\ UNCHANGED <<forms, trRevision, trCalls, trText, trLoading>>
  /\ UNCHANGED notExt

\* the play button of the row whose fileName is f written as `how`
playUrl(f, how, stamp) ==
  /\ Len(urlCalls) < MaxUrlCalls
  /\ urlCalls' = Append(urlCalls,
       [by |-> "Row", f |-> f, how |-> how,
        path |-> RowAudioPath(Spell(f, how)),
        url |-> RowAudioUrl(Spell(f, how), stamp)])
  /\ UNCHANGED <<forms, trRevision, trCalls, trText, trLoading>>
  /\ UNCHANGED notExt

\* ================================================ form bodies
\* the places that post to /dataset/update, and those that post a text to
\* /dataset/add
UpdateSenders ==
  {"api.js updateSample", "part_000 updateSample",
   "DatasetManager.jsx updateText", "part_007:26 updateText",
   "part_007:204 updateText", "part_007:521 updateText"}
AddSenders == {"api.js addSample", "TranscribePage.jsx saveToCSV"}

\* a sender that writes the text of an update under the key of /dataset/add
TextKeyOfAdd(sender) == "text"

\* the key under which the sender appends the transcript text
TextKey(sender) ==
  CASE sender = "api.js updateSample" -> "new_text"
    [] sender = "part_000 updateSample" -> "new_text"
    [] sender = "DatasetManager.jsx updateText" -> "new_text"
    [] sender = "part_007:26 updateText" -> "new_text"
    [] sender = "part_007:204 updateText" -> "new_text"
    [] sender = "part_007:521 updateText" -> "new_text"
    [] sender = "api.js addSample" -> "text"
    [] sender = "TranscribePage.jsx saveToCSV" -> "text"

\* the FormData of an update: fd.append("file_name", ...); fd.append(key, ...)
UpdateForm(sender, f, txt) ==
  [sender |-> sender, endpoint |-> "/dataset/update",
   fields |-> {<<"file_name", f>>, <<TextKey(sender), txt>>}]

\* the FormData of an add: fd.append("file", ...); fd.append(key, ...)
AddForm(sender, f, txt) ==
  [sender |-> sender, endpoint |-> "/dataset/add",
   fields |-> {<<"file", f>>, <<TextKey(sender), txt>>}]

\* a revision posts an update of the text of f
postUpdate(sender, f, txt) ==
  /\ forms' = forms \cup {UpdateForm(sender, f, txt)}
  /\ UNCHANGED <<urlCalls, trRevision, trCalls, trText, trLoading>>
  /\ UNCHANGED notExt

\* a recording is added with its text
postAdd(sender, f, txt) ==
  /\ forms' = forms \cup {AddForm(sender, f, txt)}
  /\ UNCHANGED <<urlCalls, trRevision, trCalls, trText, trLoading>>
  /\ UNCHANGED notExt

\* ---- TranscribePage: what sendAudio shows for an answer of /transcribe
MaxTranscribes == 2   \* recordings sent for transcription

\* sendAudio of the TranscribePage in use and of the earlier App page
TrRevisions == {"live", "part_001"}

\* a field the response leaves out: the number is missing, and a template
\* literal prints the missing string as "undefined"
NoNumber == Null
Undefined == <<"u", "n", "d", "e", "f", "i", "n", "e", "d">>

Hello == <<"h", "i">>
\* numbers of the response are counted in hundredths: 1.50 s and 12.34 ms
Responses ==
  [user_text : {<<>>, Hello},
   playback_path : {Undefined, <<"/", "p">>},
   language : {Undefined, <<"m", "n">>},
   duration_sec : {NoNumber, 150},
   time_ms : {NoNumber, 1234}]

NoResponse ==
  [user_text |-> <<>>, playback_path |-> Undefined, language |-> Undefined,
   duration_sec |-> NoNumber, time_ms |-> NoNumber]

\* what a rejected request carries: err.response.data.detail and err.message
TrErrors == [detail : {<<>>, <<"b", "a", "d">>}, message : {<<>>, <<"n", "e", "t">>}]
NoError == [detail |-> <<>>, message |-> <<>>]

\* Number.prototype.toFixed for one or two digits, on hundredths
toFixed(h, digits) ==
  LET scaled == IF digits = 2 THEN h ELSE (h + 5) \div 10
      unit == IF digits = 2 THEN 100 ELSE 10
      frac == ToDigits(scaled % unit)
  IN ToDigits(scaled \div unit) \o <<".">>
       \o (IF Len(frac) < digits THEN <<"0">> ELSE <<>>) \o frac

NotRecognized == <<"N", "o", " ", "t", "e", "x", "t", " ", "r", "e", "c", "o", "g", "n", "i", "z", "e", "d", ".">>
FailedAgain == <<"T", "r", "a", "n", "s", "c", "r", "i", "p", "t", "i", "o", "n", " ", "f", "a", "i", "l", "e", "d", ".", " ", "P", "l", "e", "a", "s", "e", " ", "t", "r", "y", " ", "a", "g", "a", "i", "n", ".">>
FailedShort == <<"T", "r", "a", "n", "s", "c", "r", "i", "p", "t", "i", "o", "n", " ", "f", "a", "i", "l", "e", "d", ".">>
Memo == <<"#">>       \* the memo sign in front of a transcript
Warning == <<"!">>    \* the warning sign in front of an error

\* part_001: reading .toFixed of a missing number throws a TypeError
FormatThrows(rev, resp) ==
  /\ rev = "part_001"
  /\ resp.user_text # <<>>
  /\ (resp.duration_sec = NoNumber \/ resp.time_ms = NoNumber)

\* the transcript part_001 builds from a response it can format
Transcript(resp) ==
  IF resp.user_text # <<>>
    THEN Memo \o <<" ">> \o resp.user_text
           \o <<"\n", "\n">> \o <<"L", "a", "n", "g", "u", "a", "g", "e", ":", " ">> \o resp.language
           \o <<"\n">> \o <<"D", "u", "r", "a", "t", "i", "o", "n", ":", " ">> \o toFixed(resp.duration_sec, 2)
           \o <<"s", "\n">> \o <<"P", "r", "o", "c", "e", "s", "s", "i", "n", "g", ":", " ">> \o toFixed(resp.time_ms, 1) \o <<" ", "m", "s">>
    ELSE NotRecognized

\* the text on the page after the try block has run on a response
ShownForResponse(rev, resp) ==
  IF rev = "live"
    THEN Memo \o <<" ">>
           \o (IF Len(resp.user_text) > 0 THEN resp.user_text ELSE NotRecognized)
    ELSE IF FormatThrows(rev, resp) THEN FailedAgain ELSE Transcript(resp)

\* the text on the page after the catch block has run on a rejection
ShownForError(rev, err) ==
  IF rev = "live"
    THEN Memo \o <<" ">> \o Warning \o <<" ">>
           \o (IF err.detail # <<>> THEN err.detail
               ELSE IF err.message # <<>> THEN err.message ELSE FailedShort)
    ELSE FailedAgain

\* a recording is sent: the spinner starts, the live page clears its text
sendAudio ==
  /\ Len(trCalls) < MaxTranscribes
  /\ trCalls' = Append(trCalls,
       [st |-> "pending", got |-> "none", resp |-> NoResponse,
        err |-> NoError, shown |-> <<>>, caught |-> FALSE])
  /\ trLoading' = TRUE
  /\ trText' = IF trRevision = "live" THEN <<>> ELSE trText
  /\ UNCHANGED <<forms, urlCalls, trRevision>>
  /\ UNCHANGED notExt

\* handleStop: `if (!blob) return;` lets every Blob object pass, whatever its
\* size; only a missing blob returns
PassesHandleStop(blob) == blob # NoBlob

\* handleStop has set its 300 ms timer for the blob of session s and the
\* timer has not fired
SendTimerSet(s) == PassesHandleStop(sess[s].blob) /\ ~sess[s].sent

\* the timer of handleStop fires: sendAudio(blob) posts the blob of session s
sendAudioOf(s) ==
  /\ SendTimerSet(s)
  /\ Len(trCalls) < MaxTranscribes
  /\ sess' = [sess EXCEPT ![s].sent = TRUE]
  /\ trCalls' = Append(trCalls,
       [st |-> "pending", got |-> "none", resp |-> NoResponse,
        err |-> NoError, shown |-> <<>>, caught |-> FALSE])
  /\ trLoading' = TRUE
  /\ trText' = IF trRevision = "live" THEN <<>> ELSE trText
  /\ UNCHANGED <<activeTab, inst, recording, mediaRecorderRef, chunksRef,
                 animationRef, loops, audioCtxRef>>
  /\ UNCHANGED <<currentIdx, rowVars, dsVars, apiVars, expVars, playVars,
                 mimeVars, nameVars>>
  /\ UNCHANGED <<forms, urlCalls, trRevision>>

\* /transcribe answers 2xx with a body
transcribeResolves(i, resp) ==
  /\ i \in DOMAIN trCalls
  /\ trCalls[i].st = "pending"
  /\ LET shown == ShownForResponse(trRevision, resp) IN
       /\ trCalls' = [trCalls EXCEPT ![i] =
            [@ EXCEPT !.st = "done", !.got = "response", !.resp = resp,
                      !.shown = shown,
                      !.caught = FormatThrows(trRevision, resp)]]
       /\ trText' = IF trRevision = "live" THEN SubSeq(shown, 3, Len(shown))
                    ELSE shown
  /\ trLoading' = FALSE
  /\ UNCHANGED <<forms, urlCalls, trRevision>>
  /\ UNCHANGED notExt

\* the request fails: no answer, or an answer outside 2xx
transcribeRejects(i, err) ==
  /\ i \in DOMAIN trCalls
  /\ trCalls[i].st = "pending"
  /\ LET shown == ShownForError(trRevision, err) IN
       /\ trCalls' = [trCalls EXCEPT ![i] =
            [@ EXCEPT !.st = "done", !.got = "error", !.err = err,
                      !.shown = shown, !.caught = TRUE]]
       /\ trText' = IF trRevision = "live" THEN SubSeq(shown, 3, Len(shown))
                    ELSE shown
  /\ trLoading' = FALSE
  /\ UNCHANGED <<forms, urlCalls, trRevision>>
  /\ UNCHANGED notExt

\* ---- idle values of the parts a specification leaves out
RowIdle == RowInit
DsIdle == DsInit /\ serverList = <<>>
ApiIdle == ApiInit
ExpIdle == revision = "v4.1.8" /\ exportCalls = <<>>
PlayIdle == PlayInit /\ playRevision = "live"
MimeIdle == MimeInit /\ platform = [isSafari |-> FALSE, opus |-> TRUE]
NameIdle == NameInit /\ now = Date(2025, 0, 1, 0, 0, 0)
ExtIdle ==
  /\ forms = {}
  /\ urlCalls = <<>>
  /\ trRevision = "live"
  /\ trCalls = <<>>
  /\ trText = <<>>
  /\ trLoading = FALSE

Init ==
  /\ RecInit /\ currentIdx = Null /\ RowIdle /\ DsIdle /\ ApiIdle /\ ExpIdle
  /\ PlayIdle
  /\ MimeIdle
  /\ NameIdle
  /\ ExtIdle

Next ==
  \/ startRecording
  \/ stopRecording
  \/ unmountRecorder
  \/ mountRecorder
  \/ \E s \in Sessions : gumRejected(s)
  \/ \E s \in Sessions : gumResolved(s)
  \/ \E s \in Sessions : gumResolvedCtorThrows(s)
  \/ \E s \in Sessions : gumResolvedCtxClosed(s)
  \/ \E s \in Sessions : delayedStart(s)
  \/ \E s \in Sessions : drawFrame(s)
  \/ \E s \in Sessions : timeslice(s)
  \/ \E s \in Sessions : trackEnded(s)
  \/ \E s \in Sessions : mediaEvent(s)

Spec == Init /\ [][Next]_vars

\* ---- the Recorder revision that stops when the tab is hidden; its other
\* handlers are those of the Recorder above
NextHidden ==
  \/ Next
  \/ stopIfHidden

SpecHidden == Init /\ [][NextHidden]_vars

\* ---- the Recorder on the transcribe tab together with handleStop of
\* TranscribePage, which submits what onStop hands over
NextSubmit ==
  \/ startRecording
  \/ stopRecording
  \/ \E s \in Sessions : gumRejected(s)
  \/ \E s \in Sessions : gumResolved(s)
  \/ \E s \in Sessions : delayedStart(s)
  \/ \E s \in Sessions : timeslice(s)
  \/ \E s \in Sessions : trackEnded(s)
  \/ \E s \in Sessions : mediaEvent(s)
  \/ \E s \in Sessions : sendAudioOf(s)

SpecSubmit == Init /\ [][NextSubmit]_vars

\* ---- the rows of a loaded DatasetManager
InitRow ==
  /\ RecInit
  /\ currentIdx = Null
  /\ RowInit
  /\ DsIdle
  /\ ApiIdle
  /\ ExpIdle
  /\ PlayIdle
  /\ MimeIdle
  /\ NameIdle
  /\ ExtIdle

NextRow ==
  \/ \E r \in Rows : handleRecordDeclined(r)
  \/ \E r \in Rows : handleRecordStart(r)
  \/ \E r \in Rows : handleRecordStop(r)
  \/ \E r \in Rows : toggleEdit(r)
  \/ \E r \in Rows : toggleEditSaved(r)
  \/ \E k \in RowSessions : rowGumRejected(k)
  \/ \E k \in RowSessions : rowGumResolved(k)
  \/ \E k \in RowSessions : rowTrackEnded(k)
  \/ \E k \in RowSessions : rowMediaEvent(k)
  \/ \E k \in RowSessions : updateAudioResponse(k, "ok")
  \/ \E k \in RowSessions : updateAudioResponse(k, "failed")
  \/ \E k \in RowSessions : updateAudioResponse(k, "error")

SpecRow == InitRow /\ [][NextRow]_vars

\* ---- the delete and record buttons of a loaded DatasetManager
LoadedList == <<Sample(NameA, TextX), Sample(NameB, TextX)>>

\* the page after its mount fetch has delivered LoadedList
DsLoaded ==
  /\ dsMounted = TRUE
  /\ samples = LoadedList
  /\ loading = FALSE
  /\ adding = FALSE
  /\ toast = ""
  /\ val = [n \in AllNames |->
             IF n \in NamesOf(LoadedList) THEN TextX ELSE Unmounted]
  /\ editing = [n \in AllNames |-> FALSE]
  /\ net = {}
  /\ issued = 1
  /\ clicks = 0
  /\ addTimers = 0
  /\ listLog = <<1>>
  /\ serverList = LoadedList

InitConfirm ==
  /\ RecInit
  /\ currentIdx = Null
  /\ RowInit
  /\ DsLoaded
  /\ ApiIdle
  /\ ExpIdle
  /\ PlayIdle
  /\ MimeIdle
  /\ NameIdle
  /\ ExtIdle

NextConfirm ==
  \/ \E n \in AllNames : deleteSampleDeclined(n)
  \/ \E n \in AllNames : deleteSample(n)
  \/ \E r \in Rows : rowMouseDown(r)
  \/ \E r \in Rows : handleRecordDeclined(r)
  \/ \E r \in Rows : handleRecordStart(r)
  \/ \E r \in Rows : handleRecordStop(r)
  \/ \E k \in RowSessions : rowGumRejected(k)
  \/ \E k \in RowSessions : rowGumResolved(k)
  \/ \E k \in RowSessions : rowMediaEvent(k)

SpecConfirm == InitConfirm /\ [][NextConfirm]_vars

\* ---- text edits on a loaded DatasetManager, file names with spaces included
SpacedA == <<" ", "a">>           \* the file name " a"
UpdateNames == AllNames \cup {SpacedA}

UpdateLists ==
  {<<Sample(NameA, TextX), Sample(NameB, TextX)>>,
   <<Sample(SpacedA, TextX), Sample(NameA, TextX)>>}

\* the page after its mount fetch has delivered one of UpdateLists
InitUpdate ==
  /\ RecInit
  /\ currentIdx = Null
  /\ RowIdle
  /\ dsMounted = TRUE
  /\ samples \in UpdateLists
  /\ loading = FALSE
  /\ adding = FALSE
  /\ toast = ""
  /\ val = [n \in UpdateNames |->
             IF n \in NamesOf(samples) THEN TextX ELSE Unmounted]
  /\ editing = [n \in UpdateNames |-> FALSE]
  /\ net = {}
  /\ issued = 1
  /\ clicks = 0
  /\ addTimers = 0
  /\ listLog = <<1>>
  /\ serverList = samples
  /\ ApiIdle
  /\ ExpIdle
  /\ PlayIdle
  /\ MimeIdle
  /\ NameIdle
  /\ ExtIdle

NextUpdate ==
  \/ toastTimeout
  \/ \E q \in net : serverAnswers(q)
  \/ \E q \in net, o \in {"ok", "failed", "error"} : updateResponse(q, o)
  \/ \E n \in UpdateNames : focusRow(n)
  \/ \E n \in UpdateNames : editStart(n)
  \/ \E n \in UpdateNames, txt \in TypedTexts : editType(n, txt)
  \/ \E n \in UpdateNames : editSave(n)

SpecUpdate == InitUpdate /\ [][NextUpdate]_vars

\* ---- playback URLs
InitUrl ==
  /\ RecInit
  /\ currentIdx = Null
  /\ RowIdle
  /\ DsIdle
  /\ ApiIdle
  /\ ExpIdle
  /\ PlayIdle
  /\ MimeIdle
  /\ NameIdle
  /\ ExtIdle

NextUrl ==
  \/ \E f \in BareNames, how \in Spellings : callGetAudioUrl(f, how)
  \/ \E f \in BareNames, how \in {"bare", "wavs"}, stamp \in Stamps :
       playUrl(f, how, stamp)

SpecUrl == InitUrl /\ [][NextUrl]_vars

\* ---- the form bodies the revisions post
InitForm ==
  /\ RecInit
  /\ currentIdx = Null
  /\ RowIdle
  /\ DsIdle
  /\ ApiIdle
  /\ ExpIdle
  /\ PlayIdle
  /\ MimeIdle
  /\ NameIdle
  /\ ExtIdle

NextForm ==
  \/ \E s \in UpdateSenders : postUpdate(s, NameA, TextX)
  \/ \E s \in AddSenders : postAdd(s, NameA, TextX)

SpecForm == InitForm /\ [][NextForm]_vars

\* ---- transcriptions
InitTranscribe ==
  /\ RecInit
  /\ currentIdx = Null
  /\ RowIdle
  /\ DsIdle
  /\ ApiIdle
  /\ ExpIdle
  /\ PlayIdle
  /\ MimeIdle
  /\ NameIdle
  /\ forms = {}
  /\ urlCalls = <<>>
  /\ trRevision \in TrRevisions
  /\ trCalls = <<>>
  /\ trText = <<>>
  /\ trLoading = FALSE

NextTranscribe ==
  \/ sendAudio
  \/ \E i \in 1..MaxTranscribes, resp \in Responses : transcribeResolves(i, resp)
  \/ \E i \in 1..MaxTranscribes, err \in TrErrors : transcribeRejects(i, err)

SpecTranscribe == InitTranscribe /\ [][NextTranscribe]_vars

\* ---- the DatasetManager page against its backend
InitDataset ==
  /\ RecInit
  /\ currentIdx = Null
  /\ RowIdle
  /\ DsInit
  /\ ApiIdle
  /\ ExpIdle
  /\ PlayIdle
  /\ MimeIdle
  /\ NameIdle
  /\ ExtIdle

NextDataset ==
  \/ mountDataset
  \/ refreshClick
  \/ addNewRecord
  \/ addTimer
  \/ toastTimeout
  \/ \E q \in net : serverAnswers(q)
  \/ \E q \in net, o \in {"ok", "failed", "error"} : listResponse(q, o)
  \/ \E q \in net, o \in {"ok", "failed", "error"} : addResponse(q, o)
  \/ \E q \in net, o \in {"ok", "failed", "error"} : deleteResponse(q, o)
  \/ \E q \in net, o \in {"ok", "failed", "error"} : updateResponse(q, o)
  \/ \E n \in AllNames : deleteSampleDeclined(n)
  \/ \E n \in AllNames : deleteSample(n)
  \/ \E n \in AllNames : focusRow(n)
  \/ \E n \in AllNames : editStart(n)
  \/ \E n \in AllNames, txt \in TypedTexts : editType(n, txt)
  \/ \E n \in AllNames : editSave(n)

SpecDataset == InitDataset /\ [][NextDataset]_vars

\* ---- the API layer against its backend
InitApi ==
  /\ RecInit
  /\ currentIdx = Null
  /\ RowIdle
  /\ DsIdle
  /\ ApiInit
  /\ ExpIdle
  /\ PlayIdle
  /\ MimeIdle
  /\ NameIdle
  /\ ExtIdle

NextApi ==
  \/ transcribeAudio
  \/ listSamples
  \/ addSample
  \/ updateSample
  \/ apiDeleteSample
  \/ cleanupOrphans
  \/ checkHealth
  \/ \E c \in 1..MaxApiCalls, status \in Statuses : handleResponse(c, status)
  \/ \E c \in 1..MaxApiCalls : fetchRejects(c)
  \/ \E c \in 1..MaxApiCalls, statusText \in StatusTexts, text \in Bodies :
       textResolves(c, statusText, text)
  \/ \E c \in 1..MaxApiCalls : textRejects(c)
  \/ \E c \in 1..MaxApiCalls, body \in JsonBodies : jsonResolves(c, body)
  \/ \E c \in 1..MaxApiCalls : jsonRejects(c)

SpecApi == InitApi /\ [][NextApi]_vars

\* ---- the download button of the DatasetManager, in each revision
InitExport ==
  /\ RecInit
  /\ currentIdx = Null
  /\ RowIdle
  /\ DsIdle
  /\ ApiIdle
  /\ ExpInit
  /\ PlayIdle
  /\ MimeIdle
  /\ NameIdle
  /\ ExtIdle

NextExport ==
  \/ downloadDataset
  \/ toastTimeout
  \/ \E c \in 1..MaxExports, ct \in ContentTypes : exportResolves(c, ct)
  \/ \E c \in 1..MaxExports, text \in Bodies : exportErrorText(c, text)
  \/ \E c \in 1..MaxExports : exportRejects(c)

SpecExport == InitExport /\ [][NextExport]_vars

\* ---- playback: the rows' play buttons and the Recorder's play button
InitPlay ==
  /\ RecInit
  /\ currentIdx = Null
  /\ RowInit
  /\ DsIdle
  /\ ApiIdle
  /\ ExpIdle
  /\ PlayInit
  /\ MimeIdle
  /\ NameIdle
  /\ ExtIdle

NextPlay ==
  \/ \E r \in Rows : handlePlay(r)
  \/ \E a \in Audios : playResolved(a)
  \/ \E a \in Audios : playRejected(a)
  \/ \E a \in Audios : audioEnded(a)
  \/ \E r \in Rows : toggleEdit(r)
  \/ \E r \in Rows : toggleEditSaved(r)
  \/ playRecording
  \/ \E i \in 1..(2 * MaxPlays) : recPlayResolves(i)
  \/ \E i \in 1..(2 * MaxPlays) : recPlayRejects(i)
  \/ \E i \in 1..(2 * MaxPlays) : touchEnd(i)

SpecPlay == InitPlay /\ [][NextPlay]_vars

\* ---- the MIME type of the Recorder's blobs on each platform
InitMime ==
  /\ RecInit
  /\ currentIdx = Null
  /\ RowIdle
  /\ DsIdle
  /\ ApiIdle
  /\ ExpIdle
  /\ PlayIdle
  /\ MimeInit
  /\ NameIdle
  /\ ExtIdle

NextMime ==
  \/ \E s \in Sessions : startWithMime(s)
  \/ \E s \in Sessions, size \in 0..1 : mimeData(s, size)
  \/ \E s \in Sessions : stopWithMime(s)

SpecMime == InitMime /\ [][NextMime]_vars

\* ---- names of the files uploaded to /dataset/add
InitName ==
  /\ RecInit
  /\ currentIdx = Null
  /\ RowIdle
  /\ DsIdle
  /\ ApiIdle
  /\ ExpIdle
  /\ PlayIdle
  /\ MimeIdle
  /\ NameInit
  /\ ExtIdle

NextName ==
  \/ tick
  \/ typeManualText
  \/ saveToCSV
  \/ \E i \in 1..MaxUploads, o \in {"ok", "failed", "error"} : saveResponse(i, o)
  \/ \E f \in ExplicitNames \cup {<<>>} : addSampleAs(f)

SpecName == InitName /\ [][NextName]_vars

\* ---- a save in TranscribePage and the DatasetManager of some revision;
\* mountDataset is the switch to the dataset tab
InitNotify ==
  /\ RecInit
  /\ currentIdx = Null
  /\ RowIdle
  /\ DsInit
  /\ ApiIdle
  /\ revision \in Revisions
  /\ exportCalls = <<>>
  /\ PlayIdle
  /\ MimeIdle
  /\ NameIdle
  /\ ExtIdle

NextNotify ==
  \/ typeManualText
  \/ saveToCSV
  \/ \E i \in 1..MaxUploads, o \in {"ok", "failed", "error"} : saveResponse(i, o)
  \/ mountDataset
  \/ \E q \in net : serverAnswers(q)
  \/ \E q \in net, o \in {"ok", "failed", "error"} : listResponse(q, o)

SpecNotify == InitNotify /\ [][NextNotify]_vars

\* ---- saving from a fresh TranscribePage: no recording yet, no text
SaveBlobs == {NoBlob, Blob(<<>>), RecordedBlob}
SaveTexts == {<<>>, <<" ">>, <<" ", "x">>}

InitSave ==
  /\ RecInit
  /\ currentIdx = Null
  /\ RowIdle
  /\ DsIdle
  /\ ApiIdle
  /\ ExpIdle
  /\ PlayIdle
  /\ MimeIdle
  /\ now = Date(2025, 0, 1, 0, 0, 0)
  /\ ticks = 0
  /\ uploads = <<>>
  /\ manualText = <<>>
  /\ audioBlob = NoBlob
  /\ saved = FALSE
  /\ ExtIdle

NextSave ==
  \/ \E b \in SaveBlobs : handleStop(b)
  \/ \E t \in SaveTexts : setManualText(t)
  \/ saveToCSV
  \/ \E i \in 1..MaxUploads, o \in {"ok", "failed", "error"} : saveResponse(i, o)
  \/ \E i \in 1..MaxUploads : savedTimeout(i)

SpecSave == InitSave /\ [][NextSave]_vars

\* ================================================ properties: DatasetManager
\* positions of list whose file name is not n
KeptPositions(list, n) == {i \in 1..Len(list) : list[i].file_name # n}

\* list with the entries named n removed, the others kept in their order
ListWithout(list, n) ==
  [k \in 1..Cardinality(KeptPositions(list, n)) |->
     list[CHOOSE i \in KeptPositions(list, n) :
            Cardinality({j \in KeptPositions(list, n) : j <= i}) = k]]

\* the step in which the promise of request q settles with status ok
DeleteSettledOk(q) ==
  q.kind = "delete" /\ q.phase = "answered" /\ q \notin net' /\ toast' = "deleted"

ListApplied(q) ==
  q.kind = "list" /\ q.phase = "answered" /\ q \notin net' /\ listLog' # listLog

\* C7: list fetches are never cancelled and can overlap; the list shown is
\* that of the response that arrived last, whichever request it answers
C7_LastArrivedResponseWins ==
  [][\A q \in net : ListApplied(q) => samples' = q.rows]_vars

\* two fetches overlapped, the response to the earlier one arrived last and
\* is the list shown although the backend's dataset has changed since
C7_Witness ==
  /\ net = {}
  /\ Len(listLog) = 2
  /\ listLog[1] < listLog[2]
  /\ samples # serverList

\* C8: when a fetchSamples completes successfully with nothing else in flight
\* and the backend's dataset unchanged since it answered, the local list is
\* the backend's list and every rendered row shows the backend's text
C8_RefetchReconciles ==
  [][\A q \in net :
       (ListApplied(q) /\ net' = {} /\ q.rows = serverList)
         => /\ samples' = serverList'
            /\ \A i \in 1..Len(serverList') :
                 val'[serverList'[i].file_name] = serverList'[i].text]_vars

\* ================================================ properties: API layer
\* call c has settled after a response with ok = false whose body the
\* client received
FailedResponse(c) ==
  /\ apiCalls[c].st = "settled"
  /\ apiCalls[c].status # 0
  /\ ~ResOk(apiCalls[c].status)
  /\ apiCalls[c].bodyRead

RejectsWithStatus(c) ==
  /\ apiCalls[c].outcome = "rejected"
  /\ Includes(apiCalls[c].message, ToDigits(apiCalls[c].status))

IsZip(ct) ==
  LET lc == ToLowerCase(ct)
  IN /\ Len(lc) >= Len(AppZip)
     /\ SubSeq(lc, 1, Len(AppZip)) = AppZip
     /\ Len(lc) > Len(AppZip) => lc[Len(AppZip) + 1] = ";"

\* C10: when the /dataset/export response has a content type other than
\* application/zip, or the request fails, downloadDataset clicks no download
\* link and shows a notice
C10_NoDownloadOnExportFailure ==
  \A c \in DOMAIN exportCalls :
    (exportCalls[c].st = "done" /\ (exportCalls[c].failed \/ ~IsZip(exportCalls[c].ct)))
      => ~exportCalls[c].clicked /\ exportCalls[c].notice # ""

\* ================================================ properties: listSamples
\* C11: listSamples() resolves with the array under `samples` of the
\* /dataset/list response, or with an empty list if that key is absent
C11_ListSamplesReturnsArray ==
  \A c \in DOMAIN apiCalls :
    (apiCalls[c].fn = "listSamples" /\ apiCalls[c].outcome = "resolved")
      => apiCalls[c].value =
           JsonArray(IF apiCalls[c].body.hasSamples
                       THEN apiCalls[c].body.items ELSE <<>>)

\* ================================================ properties: permission denial
\* C12: whenever the microphone request of a row's record click is rejected,
\* the user sees an alert, and no recorder or stream is started for it
C12_DenialAlerts ==
  \A k \in RowSessions :
    rsess[k].st = "denied" => rsess[k].alerted /\ ~rsess[k].live

\* ================================================ properties: notices
\* C13: every outcome of a DatasetManager request that is a thrown error or a
\* response whose status is not ok shows a toast; here for the
\* /dataset/update_audio request of a re-recorded row
C13_NonSuccessShowsToast ==
  [][\A k \in RowSessions :
       (rsess[k].upload = "sent" /\ rsess'[k].upload \in {"failed", "error"})
         => toast' # ""]_vars

\* ================================================ properties: playback
\* C14: after a failed audio play() no second play() is issued unless the
\* user performs a new action: every play() call was made by a click or a
\* touch, never by the handler of a failure
C14_NoAutomaticRetry ==
  \A i \in DOMAIN recPlays : recPlays[i].by \in {"click", "touchend"}

PlayingIn(r) == {a \in Audios : audios[a].row = r /\ audios[a].st = "playing"}

\* C15: a row never has two audio elements playing at once
C15_OnePlaybackPerRow == \A r \in Rows : Cardinality(PlayingIn(r)) <= 1

\* ================================================ properties: MIME type
\* C16: whenever isTypeSupported("audio/webm;codecs=opus") is true the
\* recorder and the blob use that type, and audio/mp4 is used only where it
\* is not supported
C16_OpusPreferred ==
  \A s \in Sessions :
    /\ (mime[s].phase # "idle" /\ platform.opus) => mime[s].mimeType = Opus
    /\ (mime[s].phase = "stopped" /\ platform.opus) => mime[s].blobType = Opus
    /\ (mime[s].phase # "idle" /\ mime[s].mimeType = Mp4) => ~platform.opus

\* ================================================ properties: file names
Generated == {i \in DOMAIN uploads : uploads[i].generated}

\* C19: two uploads that rely on the generated timestamp name never use the
\* same file name
C19_GeneratedNamesUnique ==
  \A i, j \in Generated : i # j => uploads[i].name # uploads[j].name

DigitValue(ch) ==
  CHOOSE d \in 0..9 : DigitChar(d) = ch

IsDigits(s) == \A k \in 1..Len(s) : \E d \in 0..9 : s[k] = DigitChar(d)

RECURSIVE FromDigits(_)
FromDigits(s) ==
  IF s = <<>> THEN 0
  ELSE 10 * FromDigits(SubSeq(s, 1, Len(s) - 1)) + DigitValue(s[Len(s)])

\* does the digit field name[a..b] print the number n
Field(name, a, b, n) ==
  IsDigits(SubSeq(name, a, b)) /\ FromDigits(SubSeq(name, a, b)) = n

\* name is usr_YYYYMMDD_HHMMSS.wav for the local time t
MatchesPattern(name, t) ==
  /\ Len(name) = 23
  /\ SubSeq(name, 1, 4) = <<"u", "s", "r", "_">>
  /\ Field(name, 5, 8, t.y)
  /\ Field(name, 9, 10, t.mo + 1)
  /\ Field(name, 11, 12, t.d)
  /\ name[13] = "_"
  /\ Field(name, 14, 15, t.h)
  /\ Field(name, 16, 17, t.mi)
  /\ Field(name, 18, 19, t.s)
  /\ SubSeq(name, 20, 23) = <<".", "w", "a", "v">>

\* C20: a sample added without an explicit name is uploaded under
\* usr_YYYYMMDD_HHMMSS.wav built from the local time of the call, with month
\* (1-12), day, hour, minute and second zero-padded to two digits
C20_GeneratedNameMatchesPattern ==
  \A i \in Generated : MatchesPattern(uploads[i].name, uploads[i].at)

\* names were generated by addSample at a time whose month, hour, minute and
\* second all need padding, and by saveToCSV one second later
C20_Witness ==
  /\ \E i \in Generated :
       /\ uploads[i].by = "addSample"
       /\ uploads[i].at.mo = 0 /\ uploads[i].at.h = 0
       /\ uploads[i].at.mi = 0 /\ uploads[i].at.s = 9
  /\ \E i \in Generated :
       /\ uploads[i].by = "saveToCSV"
       /\ uploads[i].at.d = 1 /\ uploads[i].at.s = 10
StoppedSessions == {s \in Sessions : sess[s].blob # NoBlob}

\* C18: waveform frames are rendered only while recording: at most one draw
\* loop has a frame scheduled at any time, and no session whose recording has
\* stopped (its onstop handler has run) still has a frame scheduled.
C18_FramesOnlyWhileRecording ==
  /\ Cardinality(loops) <= 1
  /\ loops \cap StoppedSessions = {}

\* C27: in every reachable state of the DatasetManager, currentIdx is null or a
\* valid 0-based index of the local list: 0 <= currentIdx < samples.length.
C27_CurrentIdxValid ==
  currentIdx = Null \/ (0 <= currentIdx /\ currentIdx < Len(samples))

\* the step delivers the response of request q to its handler
ResponseHandled(q) == \A r \in net' : r.id # q.id

\* C28: once a delete has been confirmed by the server and applied locally, a
\* list response whose request was issued before that delete request does not
\* put the deleted file name back into the local list.
C28_DeletedNotPutBack ==
  [][\A q \in net :
       (q.kind = "list" /\ ResponseHandled(q))
         => q.missed \cap NamesOf(samples') = {}]_vars

\* C29: a failed operation leaves the client state unchanged: when the
\* response handler of a list, update or delete request runs for a thrown
\* error or for an answer whose status is not ok, the local sample list and
\* currentIdx are what they were before it ran.
C29_FailureChangesNothing ==
  [][\A q \in net :
       (q.kind \in {"list", "update", "delete"} /\ q.phase = "sent"
        /\ ResponseHandled(q))
         => (samples' = samples /\ currentIdx' = currentIdx)]_vars

\* the list with the text of the entry named f replaced by t, nothing else
OneEntryChanged(list, f, t) ==
  [i \in 1..Len(list) |->
     IF list[i].file_name = f THEN Sample(f, t) ELSE list[i]]

\* C30: a text update changes one entry only.  An update request is sent only
\* for a text that is not whitespace-only and carries trim(t); when the
\* response of the update of the row named f is handled with status ok, the
\* entry named f has the text trim(t) and every other entry and the order of
\* the list are as before, for every f of the list.
C30_UpdateChangesOneEntry ==
  [][/\ \A r \in net' :
          (r.kind = "update" /\ \A q \in net : q.id # r.id)
            => (r.text = Trim(val[r.origin]) /\ r.text # <<>>)
     /\ \A q \in net :
          (q.kind = "update" /\ ResponseHandled(q) /\ toast' = "updated")
            => samples' = OneEntryChanged(samples, q.origin, q.text)]_vars

\* C26: a Stop click is never lost: whenever the Stop button is shown
\* (recording = true) a click on it takes the branch of stopRecording that
\* stops the recorder (which queues the stop event that calls onStop), also
\* during the 200 ms between setRecording(true) and recorder.start.
C26_StopClickNeverLost ==
  (Mounted /\ recording) => ~StopHasNoEffect

\* C25: a session that the visibility handler stopped ends as after a Stop
\* click: once its onstop handler has run the recorder is inactive, the blob
\* has been handed to onStop, the stream's tracks are stopped, and the mounted
\* Recorder that holds this recorder has recording = false (Start is offered).
C25_HiddenEndsLikeStop ==
  \A s \in Sessions :
    (sess[s].hidden /\ sess[s].blob # NoBlob) =>
      /\ sess[s].st = "inactive"
      /\ ~sess[s].live
      /\ ~(Mounted /\ inst = sess[s].inst /\ mediaRecorderRef[inst] = s
           /\ recording)

\* C23: the playback URL is the base URL prefixed to a normalised path: for
\* every bare file name f, getAudioUrl of f, of "wavs/" + f and of
\* "/record_archive/wavs/" + f is API_BASE + "/record_archive/wavs/" + f, and
\* the row's play handler resolves f and "wavs/" + f to that same path.
C23_OneUrlPerFile ==
  \A i \in DOMAIN urlCalls :
    urlCalls[i].path = ApiBase \o ArchiveWavs \o urlCalls[i].f

\* the keys other than file_name in the update forms posted so far
UpdateKeys ==
  {kv[1] : kv \in UNION {fm.fields : fm \in
                           {g \in forms : g.endpoint = "/dataset/update"}}}
    \ {"file_name"}

\* every place that posts to /dataset/update has posted
AllUpdateSendersPosted ==
  \A s \in UpdateSenders :
    \E fm \in forms : fm.sender = s /\ fm.endpoint = "/dataset/update"

\* C24 as stated: the revisions send the text of an update under different
\* keys: once every revision has posted an update, both the key text and the
\* key new_text have been used.
C24_UpdateKeysDiffer ==
  AllUpdateSendersPosted => {"text", "new_text"} \subseteq UpdateKeys

\* C24 (amended): every revision sends the text of an update under the key
\* new_text; the key text is used for /dataset/add only.
C24_UpdateKeyIsNewText ==
  \A fm \in forms :
    /\ fm.endpoint = "/dataset/update" =>
         \E kv \in fm.fields :
           kv[1] = "new_text" /\ \A other \in fm.fields : other[1] # "text"
    /\ (\E kv \in fm.fields : kv[1] = "text") => fm.endpoint = "/dataset/add"

\* every revision has posted an update, and an add was posted too
C24_Witness ==
  /\ AllUpdateSendersPosted
  /\ \E fm \in forms : fm.endpoint = "/dataset/add"

\* C22: every 2xx answer of /transcribe with a non-empty user_text, whatever
\* optional fields it carries, leaves the recognised text on the page and no
\* failure message
C22_TextShownForAnyResponse ==
  \A i \in DOMAIN trCalls :
    (trCalls[i].got = "response" /\ trCalls[i].resp.user_text # <<>>)
      => /\ Includes(trCalls[i].shown, trCalls[i].resp.user_text)
         /\ ~trCalls[i].caught

\* C21: once a save of TranscribePage has come back with status ok, the
\* dataset-updated event has started a fetch of /dataset/list in the
\* DatasetManager the application renders
C21_SaveRefreshesDataset ==
  revision = "v4.1.8" =>
    \A i \in DOMAIN uploads :
      (uploads[i].by = "saveToCSV" /\ uploads[i].st = "ok")
        => uploads[i].fetched

\* C31: in TranscribePage loading is true exactly while some /transcribe
\* request is in flight, two overlapping requests included
C31_LoadingIffInFlight ==
  trRevision = "live" =>
    (trLoading <=> \E i \in DOMAIN trCalls : trCalls[i].st = "pending")

\* the text sendAudio set for call i of TranscribePage (shown without its
\* memo sign)
TextOf(i) == SubSeq(trCalls[i].shown, 3, Len(trCalls[i].shown))

\* C32: once every /transcribe request has settled, the text of TranscribePage
\* is the outcome of the recording stopped last, in whatever order the
\* answers came
C32_LastRecordingWins ==
  (/\ trRevision = "live"
   /\ trCalls # <<>>
   /\ \A i \in DOMAIN trCalls : trCalls[i].st = "done")
    => trText = TextOf(Len(trCalls))

\* C35: a recording whose blob has zero bytes (no non-empty chunk was
\* delivered) is never posted to /transcribe
C35_EmptyRecordingNotSubmitted ==
  \A s \in Sessions : sess[s].sent => Len(sess[s].blob) > 0

\* a click on the record button of row r stops the recording of session k:
\* the button is enabled, the click takes the stop branch, and the row's
\* recorder ref holds that recorder
StopsByClick(r, k) ==
  ~rowEditing[r] /\ rowIsRecording[r] /\ rowRecorderRef[r] = k

\* C33: a row is never editing and recording at once, and while a
\* re-recording of a row is in progress a click on its record button stops it
C33_EditingExcludesRecording ==
  /\ \A r \in Rows : ~(rowEditing[r] /\ rowIsRecording[r])
  /\ \A k \in RowSessions :
       rsess[k].st = "recording" => StopsByClick(rsess[k].row, k)

\* C34: TranscribePage sets saved, and dispatches dataset-updated, only when a
\* /dataset/add request that carried a recorded blob and a non-empty trimmed
\* text comes back with status ok; a click on Save without a blob or with a
\* blank text sends no request
SavedByOkAnswer ==
  \E i \in DOMAIN uploads :
    /\ uploads[i].by = "saveToCSV"
    /\ uploads[i].st = "sent"
    /\ uploads'[i].st = "ok"
    /\ uploads[i].file # NoBlob
    /\ uploads[i].text # <<>>
    /\ uploads[i].text = Trim(uploads[i].text)

Notified == {i \in DOMAIN uploads : uploads[i].notified}

C34_SavedOnlyAfterOk ==
  [][/\ (saved' /\ ~saved) => SavedByOkAnswer
     /\ (Notified' # Notified) => SavedByOkAnswer
     /\ (Len(uploads') > Len(uploads))
          => /\ audioBlob # NoBlob
             /\ Trim(manualText) # <<>>
             /\ uploads'[Len(uploads')].file = audioBlob
             /\ uploads'[Len(uploads')].text = Trim(manualText)]_vars

\* a save has come back ok and the indicator is on
C34_Witness ==
  /\ saved
  /\ \E i \in DOMAIN uploads :
       uploads[i].by = "saveToCSV" /\ uploads[i].st = "ok" /\ uploads[i].notified

====
